---- MODULE Spec2Model ----
(***************************************************************************)
(* The expression graph of marian (src/graph/expression_graph.{h,cpp}):    *)
(* node registration with memoization, the forward and backward tapes, the *)
(* root set, the checkpoint planner and the forward / backward passes.     *)
(*                                                                         *)
(* A node object is an index into the sequence nodes.  The tensor values   *)
(* are abstracted to one element of Z_Modulus per buffer: sums and         *)
(* products commute with the abstraction, a released buffer is hasVal =    *)
(* FALSE.  The classes Node, ParamNode, ConstantNode and Parameters are    *)
(* not part of the sources at hand; the operators that stand for them are  *)
(* written from the specification text.                                    *)
(***************************************************************************)
EXTENDS Integers, Sequences, FiniteSets, TLC

\* ---------------------------------------------------------------- bounds
\* Spec: objects created per behaviour, calls of forward / backward /
\* backprop per behaviour, calls of clear per behaviour.
MaxNodes == 3
MaxPasses == 1
MaxClears == 1
\* SpecPass: objects created per behaviour, calls of checkpoint(x).
MaxPassNodes == 6
MaxMarks == 1
\* SpecProbe: objects created per behaviour, calls of fits(), the largest
\* workspace the client reserves.
MaxProbeNodes == 3
MaxFits == 2
MaxBudget == 4
\* SpecShape: the dimensions of a shape passed to ConstantShape, the largest
\* size of a dimension.
MaxRank == 5
MaxDim == 3
\* functional/shape.h: CONST_SHAPE_DIMS, the N of functional::Shape.
CONST_SHAPE_DIMS == 4
\* SpecScenario: objects created per behaviour.
MaxScenarioNodes == 4
\* SpecParam: objects created per behaviour, items of a loaded model.
MaxParamNodes == 3
MaxItems == 2
\* SpecTape: objects created and passes run per behaviour.
MaxTapeNodes == 2
MaxTapePasses == 2
\* SpecPlan: objects created and checkpoint marks set per behaviour.
MaxPlanNodes == 6
MaxPlanMarks == 2
\* SpecClip: the largest clipValue passed to backward().
MaxClip == 1
\* SpecNan: objects created per behaviour.
MaxNanNodes == 4
\* SpecMemo: objects created per behaviour, the number of values hash()
\* takes on operations.
MaxMemoNodes == 3
HashRange == 2
\* Values and gradients are computed modulo this prime.
Modulus == 7

Names == {"a", "b"}
Shapes == {1}
OpTypes == {"mul", "add"}

VARIABLES
  nodes,           \* Seq of node objects (Node fields), index = object identity
  count_,          \* ExpressionGraph::count_
  nodesForward_,   \* ExpressionGraph::nodesForward_ (Seq of objects)
  nodesBackward_,  \* ExpressionGraph::nodesBackward_
  topNodes_,       \* ExpressionGraph::topNodes_ (set of objects)
  shortterm_,      \* Tensors::shortterm_, entries in insertion order
  longterm_,       \* Tensors::longterm_, entries in insertion order
  params_,         \* Parameters: the parameter objects in creation order
  reloaded_,       \* ExpressionGraph::reloaded_
  inferenceOnly_,  \* ExpressionGraph::inferenceOnly_
  checkpointing_,  \* ExpressionGraph::checkpointing_
  aborted,         \* ABORT was reached: the process has ended
  abortMsg,        \* which ABORT
  log,             \* what the last call did to nodes, in order
  passes,          \* number of forward / backward / backprop calls so far
  clears,          \* number of clear calls so far
  marks,           \* number of checkpoint(x) calls so far
  lastOp,          \* the last call: its name and arguments
  lastRet,         \* the object the last registration returned (0: none)
  live,            \* the objects the client holds a handle of in this cycle
  built,           \* the objects registrations returned since the last pass
  throwing_,       \* TensorAllocator: throwAtReallocation is set
  reserved_,       \* TensorAllocator: the reserved workspace, in elements
  used_,           \* TensorAllocator: the allocated workspace, in elements
  fitted,          \* what the last call of fits() returned
  throwNan_,       \* ExpressionGraph::throwNan_
  constantShape    \* functional::ConstantShape<N>: the object last constructed

vars == <<nodes, count_, nodesForward_, nodesBackward_, topNodes_, shortterm_,
          longterm_, params_, reloaded_, inferenceOnly_, checkpointing_,
          aborted, abortMsg, log, passes, clears, marks, lastOp, lastRet, live,
          built, throwing_, reserved_, used_, fitted, throwNan_,
          constantShape>>

\* The graph as one value, for the operators that model the methods.  A call
\* starts with firstNan set (the local of backward()); nanVals and nanGrads
\* are the nodes whose value and gradient IsNan reports in this call.
G ==
  [nodes |-> nodes, count_ |-> count_, nodesForward_ |-> nodesForward_,
   nodesBackward_ |-> nodesBackward_, topNodes_ |-> topNodes_,
   shortterm_ |-> shortterm_, longterm_ |-> longterm_, params_ |-> params_,
   reloaded_ |-> reloaded_, inferenceOnly_ |-> inferenceOnly_,
   checkpointing_ |-> checkpointing_, aborted |-> aborted,
   abortMsg |-> abortMsg, log |-> log, throwing_ |-> throwing_,
   reserved_ |-> reserved_, used_ |-> used_, thrown |-> FALSE,
   throwNan_ |-> throwNan_, firstNan |-> TRUE, nanVals |-> {},
   nanGrads |-> {}]

Range(s) == {s[i] : i \in 1..Len(s)}

\* ------------------------------------------------------------------ Node
\* Structural hash: leaves hash by identity, operations by kind, shape and
\* children.
NodeHash(type, shape, children, self) ==
  IF children = <<>> THEN <<"leaf", self>> ELSE <<type, shape, children>>

NewNode(type, shape, children, trainable, memo, self) ==
  [type |-> type, shape |-> shape, children |-> children, kids |-> children,
   trainable |-> trainable, memo |-> memo, name |-> "",
   hash |-> NodeHash(type, shape, children, self),
   id |-> 0, regs |-> 0, mark |-> FALSE,
   hasSub |-> FALSE, subtape |-> <<>>,
   hasVal |-> FALSE, val |-> 0, inited |-> FALSE,
   hasGrad |-> FALSE, grad |-> 0]

\* Node::equal: a parameter equals the node of the same name, a constant only
\* itself, an operation the node of the same kind, shape and children.
equal(g, a, b) ==
  LET x == g.nodes[a]
      y == g.nodes[b]
  IN  CASE x.type = "param" -> y.type = "param" /\ x.name = y.name
        [] x.type = "const" -> a = b
        [] OTHER -> x.type = y.type /\ x.shape = y.shape
                    /\ x.children = y.children

\* isCheckpoint that looks at the mark alone.
isCheckpointMarked(g, o) == g.nodes[o].mark

\* Node::isCheckpoint: a leaf, or a node marked by the client or the planner.
isCheckpoint(g, o) == g.nodes[o].children = <<>> \/ g.nodes[o].mark

Abort(g, msg) == [g EXCEPT !.aborted = TRUE, !.abortMsg = msg]

\* The call in progress has ended: by ABORT, or an AllocationException is on
\* its way up to the handler.
Stopped(g) == g.aborted \/ g.thrown

\* --------------------------------------------------------------- Tensors
\* The entries of a cache with the hash key h (one bucket of the map).
Bucket(g, cache, h) == SelectSeq(cache, LAMBDA x : g.nodes[x].hash = h)

\* The entries of the short-term bucket that equal() accepts for node o.
EqualInBucket(g, o) ==
  SelectSeq(g.shortterm_,
            LAMBDA x : g.nodes[x].hash = g.nodes[o].hash /\ equal(g, o, x))

\* findShortterm that does not remember the node.
findShorttermForgets(g, o, hits) ==
  IF hits # <<>>
  THEN [g |-> g, found |-> hits[1]]
  ELSE [g |-> g, found |-> 0]

\* Tensors::findOrRemember, the short-term part.  found = 0 is nullptr.
findShortterm(g, o, hits) ==
  IF hits # <<>>
  THEN [g |-> g, found |-> hits[1]]
  ELSE [g |-> [g EXCEPT !.shortterm_ = Append(@, o)], found |-> 0]

\* Tensors::findOrRemember, the long-term part: the first entry of the
\* bucket is returned as it is.
findLongterm(g, o, bucket) ==
  IF bucket # <<>>
  THEN [g |-> g, found |-> bucket[1]]
  ELSE findShortterm([g EXCEPT !.longterm_ = Append(@, o)], o,
                     EqualInBucket(g, o))

\* findOrRemember that looks every memoized node up in the long-term cache.
findOrRememberAnyType(g, o) ==
  IF g.nodes[o].memo
  THEN findLongterm(g, o, Bucket(g, g.longterm_, g.nodes[o].hash))
  ELSE findShortterm(g, o, EqualInBucket(g, o))

\* Tensors::findOrRemember.
findOrRemember(g, o) ==
  IF g.nodes[o].type # "param" /\ g.nodes[o].memo
  THEN findLongterm(g, o, Bucket(g, g.longterm_, g.nodes[o].hash))
  ELSE findShortterm(g, o, EqualInBucket(g, o))

\* TensorAllocator::allocate in the workspace: size elements more.  Beyond
\* the reserved workspace the allocator throws an AllocationException when
\* throwAtReallocation is set and grows the workspace otherwise.
workspaceAllocate(g, size) ==
  IF g.used_ + size <= g.reserved_ THEN [g EXCEPT !.used_ = @ + size]
  ELSE IF g.throwing_ THEN [g EXCEPT !.thrown = TRUE]
       ELSE [g EXCEPT !.used_ = @ + size, !.reserved_ = g.used_ + size]

\* Tensors::allocateForward, the buffer is handed out unless the allocator
\* threw.
allocatedForward(g, o) ==
  IF g.thrown THEN [g EXCEPT !.log = Append(@, <<"throw", o>>)]
  ELSE [g EXCEPT !.nodes[o].hasVal = TRUE, !.nodes[o].val = 0,
                 !.log = Append(@, <<"alloc", o>>)]

\* allocateForward that allocates whether or not the value is there.
allocateForwardAgain(g, o) ==
  IF Stopped(g) THEN g
  ELSE allocatedForward(IF g.nodes[o].memo THEN g
                        ELSE workspaceAllocate(g, g.nodes[o].shape), o)

\* Tensors::allocateForward (through Node::allocate): no-op when val is
\* there; a memoized node's value comes from cache_, any other from tensors_.
allocateForward(g, o) ==
  IF Stopped(g) \/ g.nodes[o].hasVal THEN g
  ELSE allocatedForward(IF g.nodes[o].memo THEN g
                        ELSE workspaceAllocate(g, g.nodes[o].shape), o)

\* Tensors::allocateBackward, the buffer is handed out unless the allocator
\* threw.
allocatedBackward(g, o) ==
  IF g.thrown THEN [g EXCEPT !.log = Append(@, <<"throw", o>>)]
  ELSE [g EXCEPT !.nodes[o].hasGrad = TRUE, !.nodes[o].grad = 0,
                 !.log = Append(@, <<"allocGrad", o>>)]

\* Tensors::allocateBackward: no-op when grad is there.
allocateBackward(g, o) ==
  IF Stopped(g) \/ g.nodes[o].hasGrad THEN g
  ELSE allocatedBackward(workspaceAllocate(g, g.nodes[o].shape), o)

\* ------------------------------------------------------- ExpressionGraph
\* ExpressionGraph::add, the node was not found: setId and the forward tape.
recordForward(g, o) ==
  [g EXCEPT !.nodes[o].id = g.count_,
            !.nodes[o].regs = @ + 1,
            !.count_ = @ + 1,
            !.nodesForward_ = Append(@, o)]

\* recordBackward that puts the node at the front of the backward tape.
recordBackwardInFront(g, o) ==
  IF ~g.inferenceOnly_ /\ g.nodes[o].trainable
  THEN [g EXCEPT !.nodesBackward_ = <<o>> \o @, !.topNodes_ = @ \cup {o}]
  ELSE g

\* ExpressionGraph::add: the backward tape and the roots, when training.
recordBackward(g, o) ==
  IF ~g.inferenceOnly_ /\ g.nodes[o].trainable
  THEN [g EXCEPT !.nodesBackward_ = Append(@, o), !.topNodes_ = @ \cup {o}]
  ELSE g

\* ExpressionGraph::add: the children of a root are no roots.
eraseChildren(g, o) ==
  IF o \in g.topNodes_
  THEN [g EXCEPT !.topNodes_ = @ \ Range(g.nodes[o].children)]
  ELSE g

\* addFound that uses up an id for a node that was found.
addFoundCounts(fr, o) ==
  IF fr.found # 0
  THEN [g |-> [fr.g EXCEPT !.count_ = @ + 1], ret |-> fr.found]
  ELSE [g |-> eraseChildren(recordBackward(recordForward(fr.g, o), o), o),
        ret |-> o]

\* ExpressionGraph::add after findOrRemember.
addFound(fr, o) ==
  IF fr.found # 0 THEN [g |-> fr.g, ret |-> fr.found]
  ELSE [g |-> eraseChildren(recordBackward(recordForward(fr.g, o), o), o),
        ret |-> o]

\* ExpressionGraph::add.  o is the object just constructed.
add(g, o) == addFound(findOrRemember(g, o), o)

\* ------------------------------------------------- Node, the life cycle
InitValue(n) ==
  CASE n.type = "param" -> (IF n.name = "a" THEN 1 ELSE 2)
    [] OTHER -> 3

\* Node::init: the initializer of a leaf runs once per node.
init(g, o) ==
  IF ~Stopped(g) /\ g.nodes[o].kids = <<>> /\ ~g.nodes[o].inited
  THEN [g EXCEPT !.nodes[o].val = InitValue(g.nodes[o]),
                 !.nodes[o].inited = TRUE,
                 !.log = Append(@, <<"init", o>>)]
  ELSE g

OpValue(type, x, y) ==
  IF type = "mul" THEN (x * y) % Modulus ELSE (x + y) % Modulus

\* The value Node::forward computes for o.
ForwardValue(g, o) ==
  IF Len(g.nodes[o].children) = 2
  THEN OpValue(g.nodes[o].type, g.nodes[g.nodes[o].children[1]].val,
               g.nodes[g.nodes[o].children[2]].val)
  ELSE g.nodes[o].val

\* What Node::forward of o reads: for each child, whether its value is there.
ForwardReads(g, o) ==
  <<"fwd", o,
    [i \in 1..Len(g.nodes[o].children) |->
       g.nodes[g.nodes[o].children[i]].hasVal]>>

\* Node::forward: the value from the children's values.
nodeForward(g, o) ==
  [g EXCEPT !.nodes[o].val = ForwardValue(g, o),
            !.log = Append(@, ForwardReads(g, o))]

\* The workspace a released value buffer of o gives back.
Returned(g, o) ==
  IF g.nodes[o].memo \/ g.nodes[o].type = "param" THEN 0
  ELSE g.nodes[o].shape

\* Node::free: releases the value buffer.
free(g, o) ==
  IF g.nodes[o].hasVal
  THEN [g EXCEPT !.nodes[o].hasVal = FALSE, !.nodes[o].val = 0,
                 !.used_ = @ - Returned(g, o),
                 !.log = Append(@, <<"free", o>>)]
  ELSE g

\* Node::init_dependent after the allocation of the gradient.
seeded(g, o) ==
  IF Stopped(g) THEN g
  ELSE [g EXCEPT !.nodes[o].grad = 1, !.log = Append(@, <<"seed", o>>)]

\* Node::init_dependent: the gradient of a root is seeded with ones.
init_dependent(g, o) == seeded(allocateBackward(g, o), o)

\* Node::set_zero_adjoint after the allocation of the gradient.
zeroed(g, o) ==
  IF Stopped(g) THEN g
  ELSE [g EXCEPT !.nodes[o].grad = 0, !.log = Append(@, <<"zero", o>>)]

\* Node::set_zero_adjoint: the gradient is zeroed when it is first allocated.
set_zero_adjoint(g, o) ==
  IF g.nodes[o].hasGrad THEN g ELSE zeroed(allocateBackward(g, o), o)

\* A share that multiplies by the child's own value, not by the other's.
ContributionOwnValue(g, v, i) ==
  IF g.nodes[v].type = "mul"
  THEN (g.nodes[v].grad * g.nodes[g.nodes[v].children[i]].val) % Modulus
  ELSE g.nodes[v].grad

\* One child's share of Node::backward.
Contribution(g, v, i) ==
  IF g.nodes[v].type = "mul"
  THEN (g.nodes[v].grad * g.nodes[g.nodes[v].children[3 - i]].val) % Modulus
  ELSE g.nodes[v].grad

RECURSIVE accumulate(_, _, _)
\* The loop of Node::backward over the children, from child i on.
accumulate(g, v, i) ==
  IF i > Len(g.nodes[v].children) THEN g
  ELSE IF g.nodes[g.nodes[v].children[i]].trainable
       THEN accumulate(
              [g EXCEPT !.nodes[g.nodes[v].children[i]].grad =
                 (@ + Contribution(g, v, i)) % Modulus], v, i + 1)
       ELSE accumulate(g, v, i + 1)

\* The values Node::backward of v reads: its gradient, its children's values.
BackwardReads(g, v) ==
  <<"bwd", v, g.nodes[v].grad,
    [i \in 1..Len(g.nodes[v].children) |->
       g.nodes[g.nodes[v].children[i]].val]>>

\* Node::backward: adds this node's contribution to each trainable child's
\* gradient.  A missing own gradient, child gradient or (for mul) child value
\* is a null dereference.
nodeBackward(g, v) ==
  IF \/ ~g.nodes[v].hasGrad
     \/ \E c \in Range(g.nodes[v].children) :
          g.nodes[c].trainable /\ ~g.nodes[c].hasGrad
     \/ g.nodes[v].type = "mul"
        /\ \E c \in Range(g.nodes[v].children) : ~g.nodes[c].hasVal
  THEN Abort(g, "null dereference in backward")
  ELSE accumulate([g EXCEPT !.log = Append(@, BackwardReads(g, v))], v, 1)

\* ------------------------------------------------------------ Parameters
\* The parameters of a name, in creation order.
Named(g, name) == SelectSeq(g.params_, LAMBDA p : g.nodes[p].name = name)

\* A lookup that answers with the oldest parameter whatever the name.
paramsGetAny(g, name) ==
  IF g.params_ = <<>> THEN 0 ELSE g.params_[1]

\* Parameters::get: the parameter of that name, 0 for none.
paramsGet(g, name) ==
  IF Named(g, name) = <<>> THEN 0 ELSE Named(g, name)[1]

\* ExpressionGraph::get(name), with an empty namespace_.
get(g, name) == paramsGet(g, name)

\* The value of a parameter, from the allocator of the parameters.
allocateValue(g, o) ==
  IF g.nodes[o].hasVal THEN g
  ELSE [g EXCEPT !.nodes[o].hasVal = TRUE, !.nodes[o].val = 0,
                 !.log = Append(@, <<"alloc", o>>)]

\* The gradient of a parameter, from the allocator of the parameters.
allocateGradient(g, o) ==
  IF g.nodes[o].hasGrad THEN g
  ELSE [g EXCEPT !.nodes[o].hasGrad = TRUE, !.nodes[o].grad = 0,
                 !.log = Append(@, <<"allocGrad", o>>)]

RECURSIVE allocateForwardAll(_, _)
allocateForwardAll(g, seq) ==
  IF seq = <<>> THEN g
  ELSE allocateForwardAll(allocateValue(g, Head(seq)), Tail(seq))

RECURSIVE allocateBackwardAll(_, _)
allocateBackwardAll(g, seq) ==
  IF seq = <<>> THEN g
  ELSE allocateBackwardAll(allocateGradient(g, Head(seq)), Tail(seq))

RECURSIVE ZeroGradAll(_, _)
ZeroGradAll(g, seq) ==
  IF seq = <<>> THEN g
  ELSE ZeroGradAll([g EXCEPT !.nodes[Head(seq)].grad = 0,
                             !.log = Append(@, <<"zeroParam", Head(seq)>>)],
                   Tail(seq))

\* Parameters::allocateForward / allocateBackward / set_zero_adjoint.
paramsAllocateForward(g) == allocateForwardAll(g, g.params_)

paramsAllocateBackward(g) == allocateBackwardAll(g, g.params_)

paramsSetZeroAdjoint(g) == ZeroGradAll(g, g.params_)

\* ---------------------------------------------------- checkpoint planner
RECURSIVE createSubtape(_, _)
RECURSIVE visitChildren(_, _, _, _)
\* createSubtape, a child that is visited: its subtape, just built, is
\* spliced to the end of acc and is empty afterwards.
spliceChild(g, node, i, acc) ==
  visitChildren([g EXCEPT !.nodes[g.nodes[node].children[i]].subtape = <<>>],
                node, i + 1,
                acc \o g.nodes[g.nodes[node].children[i]].subtape)

\* The loop of createSubtape over the children of node, from child i on; acc
\* is the subtape built so far.  Returns the graph and the subtape.
visitChildren(g, node, i, acc) ==
  IF i > Len(g.nodes[node].children) THEN [g |-> g, sub |-> acc]
  ELSE IF \/ isCheckpoint(g, g.nodes[node].children[i])
          \/ g.nodes[g.nodes[node].children[i]].hasSub
       THEN visitChildren(g, node, i + 1, acc)
       ELSE spliceChild(createSubtape(g, g.nodes[node].children[i]),
                        node, i, acc)

\* setSubtape with node in front of its descendants.
setSubtapeInFront(r, node) ==
  [r.g EXCEPT !.nodes[node].subtape =
                IF isCheckpoint(r.g, node) THEN r.sub ELSE <<node>> \o r.sub,
              !.nodes[node].hasSub = TRUE]

\* The end of createSubtape: node itself, unless it is a checkpoint, and
\* setSubtape.
setSubtape(r, node) ==
  [r.g EXCEPT !.nodes[node].subtape =
                IF isCheckpoint(r.g, node) THEN r.sub ELSE Append(r.sub, node),
              !.nodes[node].hasSub = TRUE]

\* createSubtape (expression_graph.cpp): the non-checkpoint descendants of
\* node that no earlier call has visited, children first.
createSubtape(g, node) == setSubtape(visitChildren(g, node, 1, <<>>), node)

\* The least object of a set.
Least(S) == CHOOSE x \in S : \A y \in S : x <= y

RECURSIVE SetToSeq(_)
\* The objects of a set in increasing order: the order in which the loops
\* over topNodes_ visit it (the loops' results do not depend on it).
SetToSeq(S) ==
  IF S = {} THEN <<>> ELSE <<Least(S)>> \o SetToSeq(S \ {Least(S)})

Reverse(s) == [i \in 1..Len(s) |-> s[Len(s) + 1 - i]]

\* Node::markCheckpoint.
markCheckpoint(g, o) == [g EXCEPT !.nodes[o].mark = TRUE]

RECURSIVE markCheckpointAll(_, _)
\* markCheckpoint on each object of seq, in order.
markCheckpointAll(g, seq) ==
  IF seq = <<>> THEN g
  ELSE markCheckpointAll(markCheckpoint(g, Head(seq)), Tail(seq))

RECURSIVE PlanAll(_, _)
\* The planner's walk over the backward tape, here seq: createSubtape on
\* every checkpoint.
PlanAll(g, seq) ==
  IF seq = <<>> THEN g
  ELSE IF isCheckpoint(g, Head(seq))
       THEN PlanAll(createSubtape(g, Head(seq)), Tail(seq))
       ELSE PlanAll(g, Tail(seq))

\* FoldTop that leaves the root's subtape as createSubtape built it.
FoldTopSkipped(g, top) == g

\* The last loop of the planner: the nodes on a root's subtape become
\* checkpoints and the root's subtape is emptied.
FoldTop(g, top) ==
  IF g.nodes[top].hasSub
  THEN [markCheckpointAll(g, g.nodes[top].subtape)
          EXCEPT !.nodes[top].subtape = <<>>]
  ELSE g

RECURSIVE FoldTops(_, _)
\* FoldTop on each object of seq, in order.
FoldTops(g, seq) ==
  IF seq = <<>> THEN g ELSE FoldTops(FoldTop(g, Head(seq)), Tail(seq))

\* The checkpointing_ branch of ExpressionGraph::forwardNext.
planCheckpoints(g) ==
  FoldTops(PlanAll(markCheckpointAll(g, SetToSeq(g.topNodes_)),
                   Reverse(g.nodesBackward_)),
           SetToSeq(g.topNodes_))

\* ---------------------------------------------------------- forward pass
\* The list forward() works on: the forward tape (ref = 0) or the subtape of
\* node ref.
Tape(g, ref) == IF ref = 0 THEN g.nodesForward_ ELSE g.nodes[ref].subtape

PopFront(g, ref) ==
  IF ref = 0 THEN [g EXCEPT !.nodesForward_ = Tail(@)]
  ELSE [g EXCEPT !.nodes[ref].subtape = Tail(@)]

RECURSIVE freeAll(_, _)
\* free on each object of seq, in order.
freeAll(g, seq) ==
  IF seq = <<>> THEN g ELSE freeAll(free(g, Head(seq)), Tail(seq))

\* freeSubtape that frees in the final pass only.
freeSubtapeFinalPass(g, v, finalPass) ==
  IF g.checkpointing_ /\ finalPass /\ g.nodes[v].hasSub
  THEN freeAll(g, g.nodes[v].subtape)
  ELSE g

\* ExpressionGraph::forward, the end of the loop body: the subtape of v is
\* freed in a pass that is not final.
freeSubtape(g, v, finalPass) ==
  IF g.checkpointing_ /\ ~finalPass /\ g.nodes[v].hasSub
  THEN freeAll(g, g.nodes[v].subtape)
  ELSE g

\* dropChildren in training mode as well.
dropChildrenAlways(g, v) == [g EXCEPT !.nodes[v].children = <<>>]

\* ExpressionGraph::forward: inference drops the children of v.
dropChildren(g, v) ==
  IF g.inferenceOnly_ THEN [g EXCEPT !.nodes[v].children = <<>>] ELSE g

\* ExpressionGraph::forward, the check after v->forward(): a NaN or Inf in
\* the value of a trainable node is logged.  g.nanVals holds the nodes whose
\* value checkNan reports.
checkNanForward(g, v) ==
  IF g.nodes[v].trainable /\ g.throwNan_ /\ v \in g.nanVals
  THEN [g EXCEPT !.log = Append(@, <<"nanVal", v>>)]
  ELSE g

\* forwardChecked without the check of the children's values.
forwardUnchecked(g, v, finalPass) ==
  freeSubtape(dropChildren(nodeForward(g, v), v), v, finalPass)

\* ExpressionGraph::forward, the loop body after allocate and init: the
\* children's values are checked, then v->forward().
forwardChecked(g, v, finalPass) ==
  IF Stopped(g) THEN g
  ELSE IF \E c \in Range(g.nodes[v].children) : ~g.nodes[c].hasVal
       THEN Abort(g, "De-allocated child")
       ELSE freeSubtape(dropChildren(checkNanForward(nodeForward(g, v), v),
                                     v),
                        v, finalPass)

\* The body of the loop of ExpressionGraph::forward for the node v at the
\* front of the list.
forwardStep(g, v, finalPass) ==
  forwardChecked(init(allocateForward(g, v), v), v, finalPass)

RECURSIVE forward(_, _, _)
\* ExpressionGraph::forward: pop_front and the next turn of the loop.
forwardRest(g, ref, finalPass) ==
  IF Stopped(g) THEN g ELSE forward(PopFront(g, ref), ref, finalPass)

\* ExpressionGraph::forward(forwardTape, finalPass).
forward(g, ref, finalPass) ==
  IF Tape(g, ref) = <<>> THEN g
  ELSE forwardRest(forwardStep(g, Head(Tape(g, ref)), finalPass),
                   ref, finalPass)

\* ExpressionGraph::forwardNext after clearShorttermMemory.
forwardPlanned(g) ==
  forward(IF g.checkpointing_ THEN planCheckpoints(g) ELSE g, 0,
          ~g.checkpointing_)

\* ExpressionGraph::forwardNext (expression_graph.cpp).
forwardNext(g) == forwardPlanned([g EXCEPT !.shortterm_ = <<>>])

\* ExpressionGraph::forward().
graphForward(g) == forwardNext(paramsAllocateForward(g))

\* --------------------------------------------------------- backward pass
RECURSIVE ZeroChildrenAlways(_, _)
\* ZeroChildren that zeroes the gradient each time a parent is processed.
ZeroChildrenAlways(g, seq) ==
  IF seq = <<>> THEN g
  ELSE IF g.nodes[Head(seq)].trainable /\ g.nodes[Head(seq)].type # "param"
       THEN ZeroChildrenAlways(
              [g EXCEPT !.nodes[Head(seq)].hasGrad = TRUE,
                        !.nodes[Head(seq)].grad = 0,
                        !.log = Append(@, <<"zero", Head(seq)>>)],
              Tail(seq))
       ELSE ZeroChildrenAlways(g, Tail(seq))

RECURSIVE ZeroChildren(_, _)
\* set_zero_adjoint on the trainable non-parameter objects of seq, in order.
ZeroChildren(g, seq) ==
  IF seq = <<>> THEN g
  ELSE IF g.nodes[Head(seq)].trainable /\ g.nodes[Head(seq)].type # "param"
       THEN ZeroChildren(set_zero_adjoint(g, Head(seq)), Tail(seq))
       ELSE ZeroChildren(g, Tail(seq))

\* ExpressionGraph::backward, the loop body: the subtape of v is replayed.
replay(g, v) ==
  IF ~Stopped(g) /\ g.checkpointing_ /\ g.nodes[v].hasSub
  THEN forward(g, v, TRUE)
  ELSE g

RECURSIVE checkNanChildren(_, _, _)
\* ExpressionGraph::backward, the loop over the children of v behind
\* throwNan_ && firstNan: a NaN in the gradient of a trainable child is
\* logged and firstNan is reset.  g.nanGrads holds the nodes whose gradient
\* checkNan reports as NaN.
checkNanChildren(g, v, seq) ==
  IF seq = <<>> THEN g
  ELSE IF g.nodes[Head(seq)].trainable /\ Head(seq) \in g.nanGrads
       THEN checkNanChildren(
              [g EXCEPT !.log = Append(@, <<"nanGrad", Head(seq), v>>),
                        !.firstNan = FALSE],
              v, Tail(seq))
       ELSE checkNanChildren(g, v, Tail(seq))

\* ExpressionGraph::backward, the check after v->backward().
checkNanBackward(g, v) ==
  IF ~Stopped(g) /\ g.throwNan_ /\ g.firstNan
  THEN checkNanChildren(g, v, g.nodes[v].children)
  ELSE g

\* ExpressionGraph::backward, the end of the loop body.
clearChildren(g, v) ==
  IF Stopped(g) THEN g ELSE [g EXCEPT !.nodes[v].children = <<>>]

\* ExpressionGraph::backward, the loop body after the replay: v->backward().
backwardReplayed(g, v) ==
  IF Stopped(g) THEN g
  ELSE clearChildren(
         checkNanBackward(
           IF g.nodes[v].trainable THEN nodeBackward(g, v) ELSE g, v),
         v)

\* The body of the loop of ExpressionGraph::backward for the node v taken
\* from the back of the backward tape.
backwardStep(g, v) ==
  backwardReplayed(replay(ZeroChildren(g, g.nodes[v].children), v), v)

RECURSIVE backwardLoop(_)
\* ExpressionGraph::backward: the next turn of the loop.
backwardRest(g) == IF Stopped(g) THEN g ELSE backwardLoop(g)

\* The loop of ExpressionGraph::backward.
backwardLoop(g) ==
  IF Stopped(g) \/ g.nodesBackward_ = <<>> THEN g
  ELSE backwardRest(
         backwardStep([g EXCEPT !.nodesBackward_ = SubSeq(@, 1, Len(@) - 1)],
                      g.nodesBackward_[Len(g.nodesBackward_)]))

RECURSIVE seedAll(_, _)
\* init_dependent on each object of seq, in order.
seedAll(g, seq) ==
  IF seq = <<>> THEN g ELSE seedAll(init_dependent(g, Head(seq)), Tail(seq))

\* rootsCleared that leaves the short-term cache as it is.
rootsClearedKeepsCache(g) ==
  IF Stopped(g) THEN g ELSE [g EXCEPT !.topNodes_ = {}]

\* ExpressionGraph::backward: topNodes_.clear() and clearShorttermMemory()
\* after the roots were seeded.
rootsCleared(g) ==
  IF Stopped(g) THEN g ELSE [g EXCEPT !.topNodes_ = {}, !.shortterm_ = <<>>]

\* ExpressionGraph::backward: init_dependent on the roots, then the clearing.
seedRoots(g) == rootsCleared(seedAll(g, SetToSeq(g.topNodes_)))

\* ExpressionGraph::backward: the gradients of the parameters.
prepareParams(g, zero) ==
  IF zero THEN paramsSetZeroAdjoint(paramsAllocateBackward(g))
  ELSE paramsAllocateBackward(g)

\* ExpressionGraph::backward behind the check of the root set.
backwardRun(g, zero) == backwardLoop(seedRoots(prepareParams(g, zero)))

\* backward that prepares the parameters' gradients before it checks the
\* root set.
backwardAllocatesFirst(g, zero, clipValue) ==
  IF Cardinality(g.topNodes_) > 1
  THEN Abort(prepareParams(g, zero), "more than one top most node")
  ELSE backwardRun(g, zero)

\* backward that insists on exactly one root.
backwardExactlyOne(g, zero, clipValue) ==
  IF Cardinality(g.topNodes_) # 1
  THEN Abort(g, "more than one top most node")
  ELSE backwardRun(g, zero)

\* ExpressionGraph::backward(zero, clipValue): no statement of the body reads
\* clipValue (the clipping of the loop body is commented out).
backward(g, zero, clipValue) ==
  IF Cardinality(g.topNodes_) > 1
  THEN Abort(g, "more than one top most node")
  ELSE backwardRun(g, zero)

\* ExpressionGraph::backprop: backward() after forward().
backpropBackward(g) == IF Stopped(g) THEN g ELSE backward(g, TRUE, 0)

\* ExpressionGraph::backprop.
backprop(g) == backpropBackward(graphForward(g))

\* Tensors::clearLongtermMemory.
clearLongtermMemory(g) == [g EXCEPT !.longterm_ = <<>>]

\* fits that leaves the allocator as it is when the probe failed.
fitsCaughtNoReset(g) ==
  IF g.aborted THEN [g |-> g, ret |-> FALSE]
  ELSE IF g.thrown THEN [g |-> [g EXCEPT !.thrown = FALSE], ret |-> FALSE]
       ELSE [g |-> [g EXCEPT !.throwing_ = FALSE], ret |-> TRUE]

\* ExpressionGraph::fits behind backprop(): throwAtReallocation(false) on
\* both paths; false when an AllocationException was caught.
fitsCaught(g) ==
  IF g.aborted THEN [g |-> g, ret |-> FALSE]
  ELSE [g |-> [g EXCEPT !.throwing_ = FALSE, !.thrown = FALSE],
        ret |-> ~g.thrown]

\* ExpressionGraph::fits.
fits(g) == fitsCaught(backprop([g EXCEPT !.throwing_ = TRUE]))

\* Tensors::reserve: the reserved workspace grows to size elements.
reserve(g, size) ==
  [g EXCEPT !.reserved_ = IF size > @ THEN size ELSE @]

\* ----------------------------------------------------------------- clear
\* TensorAllocator::clear through Tensors::clear: the workspace buffers, the
\* values of the non-memoized non-parameter nodes and the gradients of the
\* non-parameter nodes, are gone.
ReleaseWorkspace(g, o) ==
  IF g.nodes[o].type = "param" THEN g
  ELSE [g EXCEPT !.nodes[o].hasVal = @ /\ g.nodes[o].memo,
                 !.nodes[o].hasGrad = FALSE]

RECURSIVE ReleaseAll(_, _)
\* ReleaseWorkspace on the objects i..Len(nodes).
ReleaseAll(g, i) ==
  IF i > Len(g.nodes) THEN g ELSE ReleaseAll(ReleaseWorkspace(g, i), i + 1)

\* Tensors::clear.
tensorsClear(g) ==
  [ReleaseAll(g, 1) EXCEPT !.shortterm_ = <<>>, !.used_ = 0]

RECURSIVE ForgetAll(_, _)
\* A new build cycle: no object has been given an id in it.
ForgetAll(g, i) ==
  IF i > Len(g.nodes) THEN g
  ELSE ForgetAll([g EXCEPT !.nodes[i].regs = 0], i + 1)

\* clear that keeps the id counter.
clearKeepsCount(g) ==
  ForgetAll(tensorsClear([g EXCEPT !.nodesForward_ = <<>>,
                                   !.nodesBackward_ = <<>>,
                                   !.topNodes_ = {}]), 1)

\* ExpressionGraph::clear.
clear(g) ==
  ForgetAll(tensorsClear([g EXCEPT !.count_ = 0, !.nodesForward_ = <<>>,
                                   !.nodesBackward_ = <<>>,
                                   !.topNodes_ = {}]), 1)

\* ------------------------------------------------ creating and naming nodes
\* Expression<T>(args) after add(): a node that add() did not keep and that
\* no cache remembers is destroyed.
ExpressionAdded(r, o) ==
  IF r.ret # o /\ o \notin Range(r.g.longterm_)
  THEN [g |-> [r.g EXCEPT !.nodes = SubSeq(@, 1, o - 1)], ret |-> r.ret]
  ELSE r

\* Expression<T>(args): constructs the node and registers it.
Expression(g, n) ==
  ExpressionAdded(add([g EXCEPT !.nodes = Append(@, n)], Len(g.nodes) + 1),
                  Len(g.nodes) + 1)

\* ExpressionGraph::param, a new parameter: set_name and params_->add.
paramCreated(r, name) ==
  [g |-> [r.g EXCEPT !.nodes[r.ret].name = name,
                     !.params_ = Append(@, r.ret)],
   ret |-> r.ret]

\* paramExisting that puts p on the tapes before it compares the shapes.
paramExistingAddsFirst(g, p, shape, fixed) ==
  IF shape # g.nodes[p].shape
  THEN [g |-> Abort(add(g, p).g, "shape of existing parameter"), ret |-> 0]
  ELSE [g |-> add([g EXCEPT !.nodes[p].trainable = ~fixed], p).g, ret |-> p]

\* ExpressionGraph::param, the parameter p exists: setTrainable and add.
paramExisting(g, p, shape, fixed) ==
  IF shape # g.nodes[p].shape
  THEN [g |-> Abort(g, "shape of existing parameter"), ret |-> 0]
  ELSE [g |-> add([g EXCEPT !.nodes[p].trainable = ~fixed], p).g, ret |-> p]

\* param that creates parameters on a reloaded graph as well.
paramIgnoresReloaded(g, name, shape, fixed) ==
  IF paramsGet(g, name) # 0
  THEN paramExisting(g, paramsGet(g, name), shape, fixed)
  ELSE paramCreated(
         Expression(g, NewNode("param", shape, <<>>, ~fixed,
                               g.inferenceOnly_, Len(g.nodes) + 1)),
         name)

\* ExpressionGraph::param(pname, shape, init, valueType, fixed), with an empty
\* namespace_.
param(g, name, shape, fixed) ==
  IF paramsGet(g, name) # 0
  THEN paramExisting(g, paramsGet(g, name), shape, fixed)
  ELSE IF g.reloaded_
       THEN [g |-> Abort(g, "reloaded and parameter newly created"),
             ret |-> 0]
       ELSE paramCreated(
              Expression(g, NewNode("param", shape, <<>>, ~fixed,
                                    g.inferenceOnly_, Len(g.nodes) + 1)),
              name)

\* ExpressionGraph::constant(shape, init): a constant leaf; memo is the
\* node's memoize flag.
constant(g, shape, memo) ==
  Expression(g, NewNode("const", shape, <<>>, FALSE, memo,
                        Len(g.nodes) + 1))

\* The larger of two shapes (broadcasting).
Broadcast(s, t) == IF s >= t THEN s ELSE t

\* A binary operation over two nodes (NaryNodeOp): trainable when a child is,
\* memoized when every child is, of the larger of the children's shapes.
binary(g, type, c1, c2) ==
  Expression(g, NewNode(type,
                        Broadcast(g.nodes[c1].shape, g.nodes[c2].shape),
                        <<c1, c2>>,
                        g.nodes[c1].trainable \/ g.nodes[c2].trainable,
                        g.nodes[c1].memo /\ g.nodes[c2].memo,
                        Len(g.nodes) + 1))

\* ------------------------------------------- functional::ConstantShape<N>
\* Arrays are functions over 0..N-1, N = CONST_SHAPE_DIMS.
Indices == 0..(CONST_SHAPE_DIMS - 1)

\* ConstantShape(): the default constructor.
ConstantShape ==
  [shape_ |-> [i \in Indices |-> 1], stride_ |-> [i \in Indices |-> 1],
   bstride_ |-> [i \in Indices |-> 0], elements_ |-> 1, offset_ |-> 0,
   aborted |-> FALSE]

\* A copy that starts at the front of the array.
copyToFront(array, shape, at) ==
  [i \in Indices |-> IF i < Len(shape) THEN shape[i + 1] ELSE array[i]]

\* std::copy(shape.begin(), shape.end(), array.begin() + at).
copy(array, shape, at) ==
  [i \in Indices |->
     IF at <= i /\ i < at + Len(shape) THEN shape[i - at + 1] ELSE array[i]]

\* std::fill_n(array.begin(), n, value).
fill_n(array, n, value) ==
  [i \in Indices |-> IF i < n THEN value ELSE array[i]]

RECURSIVE strides(_, _, _)
\* updateStrides, the loop from i down to 0 (stride_ and bstride_ of cs).
strides(cs, i, top) ==
  IF i < 0 THEN cs
  ELSE IF i = top
       THEN strides([cs EXCEPT !.stride_[i] = 1,
                               !.bstride_[i] =
                                 IF cs.shape_[i] = 1 THEN 0 ELSE 1],
                    i - 1, top)
       ELSE strides([cs EXCEPT
                       !.stride_[i] = cs.stride_[i + 1] * cs.shape_[i + 1],
                       !.bstride_[i] =
                         IF cs.shape_[i] = 1 THEN 0
                         ELSE cs.stride_[i + 1] * cs.shape_[i + 1]],
                    i - 1, top)

\* ConstantShape::updateStrides.
updateStrides(cs) == strides(cs, CONST_SHAPE_DIMS - 1, CONST_SHAPE_DIMS - 1)

RECURSIVE product(_, _)
\* The product of the dimensions i..N-1 of shape_.
product(array, i) ==
  IF i >= CONST_SHAPE_DIMS THEN 1 ELSE array[i] * product(array, i + 1)

\* ConstantShape::updateElements.
updateElements(cs) == [cs EXCEPT !.elements_ = product(cs.shape_, 0)]

\* ConstantShape(shape), below the ABORT_IF: copy, fill_n when N - filled is
\* not 0, updateStrides, updateElements.
shapeCopied(cs, shape, filled) ==
  updateElements(updateStrides(
    [cs EXCEPT !.shape_ =
       IF CONST_SHAPE_DIMS - filled # 0
       THEN fill_n(copy(@, shape, CONST_SHAPE_DIMS - filled),
                   CONST_SHAPE_DIMS - filled, 1)
       ELSE copy(@, shape, CONST_SHAPE_DIMS - filled)]))

\* ConstantShape(const marian::Shape& shape) and ConstantShape(const
\* Array<size_t, M>& shape): the members start with what their declarations
\* give them.
ConstantShapeFrom(shape) ==
  IF Len(shape) > CONST_SHAPE_DIMS
  THEN [ConstantShape EXCEPT !.aborted = TRUE]
  ELSE shapeCopied(ConstantShape, shape, Len(shape))

\* set that leaves the strides and the element count as they were.
setDimensionOnly(cs, i, dim) == [cs EXCEPT !.shape_[i] = dim]

\* ConstantShape::set(i, dim).
set(cs, i, dim) ==
  updateElements(updateStrides([cs EXCEPT !.shape_[i] = dim]))

RECURSIVE IindexDims(_, _, _)
\* I<K, D>::index(dims, stride).
IindexDims(K, dims, stride) ==
  IF K = 0 THEN dims[0] * stride[0]
  ELSE dims[K] * stride[K] + IindexDims(K - 1, dims, stride)

RECURSIVE Iindex(_, _, _, _)
\* I<K, D>::index(si, shape, stride).
Iindex(K, si, shape, stride) ==
  IF K = 0 THEN (si % shape[0]) * stride[0]
  ELSE (si % shape[K]) * stride[K]
         + Iindex(K - 1, si \div shape[K], shape, stride)

RECURSIVE IdimsFront(_, _, _, _)
\* Idims that fills the coordinates from the first dimension on.
IdimsFront(K, si, dims, shape) ==
  IF K = 0 THEN [dims EXCEPT ![CONST_SHAPE_DIMS - 1] = si % shape[0]]
  ELSE IdimsFront(K - 1, si \div shape[K],
                  [dims EXCEPT ![CONST_SHAPE_DIMS - 1 - K] = si % shape[K]],
                  shape)

RECURSIVE Idims(_, _, _, _)
\* I<K, D>::dims(si, dims, shape): the array dims after the call.
Idims(K, si, dims, shape) ==
  IF K = 0 THEN [dims EXCEPT ![0] = si % shape[0]]
  ELSE Idims(K - 1, si \div shape[K], [dims EXCEPT ![K] = si % shape[K]],
             shape)

\* ConstantShape::index(const Array<size_t, N>& dims).
indexDims(cs, dims) ==
  cs.offset_ + IindexDims(CONST_SHAPE_DIMS - 1, dims, cs.stride_)

\* ConstantShape::index(size_t si).
index(cs, si) ==
  cs.offset_ + Iindex(CONST_SHAPE_DIMS - 1, si, cs.shape_, cs.stride_)

\* ConstantShape::dims(si, dims): the array dims after the call.
dims(cs, si, d) == Idims(CONST_SHAPE_DIMS - 1, si, d, cs.shape_)

\* The names of the models that begin with "special:".
SpecialNames == {"special:x"}

\* pName.substr(0, 8) for the names of the models: the names that do not
\* begin with "special:" are shorter than 8 characters.
substr8(pName) == IF pName \in SpecialNames THEN "special:" ELSE pName

RECURSIVE loadItems(_, _)
\* loadItems that asks for a parameter for every item.
loadItemsAll(g, items) ==
  IF items = <<>> \/ g.aborted THEN g
  ELSE loadItems(param(g, Head(items)[1], Head(items)[2], FALSE).g,
                 Tail(items))

\* ExpressionGraph::load, the loop: the items named "special:..." are
\* skipped, param(name, shape, fromItem) for every other item.
loadItems(g, items) ==
  IF items = <<>> \/ g.aborted THEN g
  ELSE IF substr8(Head(items)[1]) = "special:"
       THEN loadItems(g, Tail(items))
       ELSE loadItems(param(g, Head(items)[1], Head(items)[2], FALSE).g,
                      Tail(items))

\* ExpressionGraph::load, after the loop: setReloaded(true).
loaded(g, markReloaded) ==
  IF ~g.aborted /\ markReloaded THEN [g EXCEPT !.reloaded_ = TRUE] ELSE g

\* ExpressionGraph::load(ioItems, markReloaded).
load(g, items, markReloaded) ==
  loaded(loadItems([g EXCEPT !.reloaded_ = FALSE], items), markReloaded)

\* A binary operation whose hash() comes out as h: Node::hash maps the
\* unbounded set of structures to one integer, so that structures that
\* differ can have the same hash.
binaryHashed(g, type, c1, c2, h) ==
  Expression(g, [NewNode(type,
                         Broadcast(g.nodes[c1].shape, g.nodes[c2].shape),
                         <<c1, c2>>,
                         g.nodes[c1].trainable \/ g.nodes[c2].trainable,
                         g.nodes[c1].memo /\ g.nodes[c2].memo,
                         Len(g.nodes) + 1)
                   EXCEPT !.hash = <<"op", h>>])

Init ==
  /\ nodes = <<>>
  /\ count_ = 0
  /\ nodesForward_ = <<>>
  /\ nodesBackward_ = <<>>
  /\ topNodes_ = {}
  /\ shortterm_ = <<>>
  /\ longterm_ = <<>>
  /\ params_ = <<>>
  /\ reloaded_ = FALSE
  /\ inferenceOnly_ \in BOOLEAN
  /\ checkpointing_ \in BOOLEAN
  /\ aborted = FALSE
  /\ abortMsg = ""
  /\ log = <<>>
  /\ passes = 0
  /\ clears = 0
  /\ marks = 0
  /\ lastOp = <<"new">>
  /\ lastRet = 0
  /\ live = {}
  /\ built = {}
  /\ throwing_ = FALSE
  /\ reserved_ = 0
  /\ used_ = 0
  /\ fitted = FALSE
  /\ throwNan_ = FALSE
  /\ constantShape = ConstantShape

\* --------------------------------------------------------------- actions
Install(g) ==
  /\ nodes' = g.nodes
  /\ count_' = g.count_
  /\ nodesForward_' = g.nodesForward_
  /\ nodesBackward_' = g.nodesBackward_
  /\ topNodes_' = g.topNodes_
  /\ shortterm_' = g.shortterm_
  /\ longterm_' = g.longterm_
  /\ params_' = g.params_
  /\ reloaded_' = g.reloaded_
  /\ aborted' = g.aborted
  /\ abortMsg' = g.abortMsg
  /\ log' = g.log
  /\ throwing_' = g.throwing_
  /\ reserved_' = g.reserved_
  /\ used_' = g.used_
  /\ UNCHANGED <<inferenceOnly_, checkpointing_, throwNan_, constantShape>>

\* A call starts with an empty log.
Start == [G EXCEPT !.log = <<>>]

Registered(r) ==
  /\ Install(r.g)
  /\ lastRet' = r.ret
  /\ live' = IF r.ret = 0 THEN live ELSE live \cup {r.ret}
  /\ built' = IF r.ret = 0 THEN built ELSE built \cup {r.ret}
  /\ UNCHANGED <<passes, clears, fitted>>

\* param(name, shape, init) by the client.
ParamCall(names, shapes, fixeds) ==
  \E name \in names, shape \in shapes, fixed \in fixeds :
    /\ Registered(param(Start, name, shape, fixed))
    /\ lastOp' = <<"param", name, shape, fixed>>
    /\ UNCHANGED marks

\* constant(shape, init) by the client.
ConstantCall ==
  /\ Registered(constant(Start, 1, FALSE))
  /\ lastOp' = <<"constant">>
  /\ UNCHANGED marks

\* checkpoint(x): the client marks the node it just built.
Checkpointed(r, mark) ==
  [g |-> IF mark THEN [r.g EXCEPT !.nodes[r.ret].mark = TRUE] ELSE r.g,
   ret |-> r.ret]

\* The client composes two nodes it holds; with checkpoint(x) it marks the
\* result as a checkpoint.
OpCall(types, maxMarks) ==
  \E type \in types, c1 \in live, c2 \in live, mark \in BOOLEAN :
    /\ c1 <= c2
    /\ mark => (checkpointing_ /\ marks < maxMarks)
    /\ Registered(Checkpointed(binary(Start, type, c1, c2), mark))
    /\ marks' = IF mark THEN marks + 1 ELSE marks
    /\ lastOp' = <<"op", type, c1, c2, mark>>

Pass(g, name) ==
  /\ Install(g)
  /\ lastOp' = <<name>>
  /\ lastRet' = 0
  /\ built' = {}
  /\ UNCHANGED <<marks, fitted>>

ForwardCall ==
  /\ Pass(graphForward(Start), "forward")
  /\ passes' = passes + 1
  /\ UNCHANGED <<live, clears>>

BackwardCall ==
  /\ Pass(backward(Start, TRUE, 0), "backward")
  /\ passes' = passes + 1
  /\ UNCHANGED <<live, clears>>

BackpropCall ==
  /\ Pass(backprop(Start), "backprop")
  /\ passes' = passes + 1
  /\ UNCHANGED <<live, clears>>

\* fits() by the client.
FitsCall ==
  /\ Install(fits(Start).g)
  /\ fitted' = fits(Start).ret
  /\ lastOp' = <<"fits">>
  /\ lastRet' = 0
  /\ built' = {}
  /\ passes' = passes + 1
  /\ UNCHANGED <<marks, live, clears>>

\* reserve(size) by the client.
ReserveCall(sizes) ==
  \E size \in sizes :
    /\ Install(reserve(Start, size))
    /\ lastOp' = <<"reserve", size>>
    /\ lastRet' = 0
    /\ UNCHANGED <<marks, live, clears, passes, built, fitted>>

\* hash() is a pure function of the structure: h can be the hash of the
\* operation type over c1 and c2 when every node of that structure has it.
HashOf(type, c1, c2, h) ==
  \A x \in 1..Len(nodes) :
    (nodes[x].type = type /\ nodes[x].kids = <<c1, c2>>)
      => nodes[x].hash = <<"op", h>>

\* The client composes two nodes it holds; the hash of the operation is one
\* of hashes.
HashedOpCall(types, hashes) ==
  \E type \in types, c1 \in live, c2 \in live, h \in hashes :
    /\ c1 <= c2
    /\ HashOf(type, c1, c2, h)
    /\ Registered(binaryHashed(Start, type, c1, c2, h))
    /\ lastOp' = <<"op", type, c1, c2, FALSE>>
    /\ UNCHANGED marks

\* clearLongtermMemory() on the Tensors of the graph.
ClearLongtermCall ==
  /\ Install(clearLongtermMemory(Start))
  /\ lastOp' = <<"clearLongtermMemory">>
  /\ lastRet' = 0
  /\ UNCHANGED <<marks, live, clears, passes, built, fitted>>

\* load(ioItems, markReloaded) by the client.
LoadCall(itemLists) ==
  \E items \in itemLists, markReloaded \in BOOLEAN :
    /\ Install(load(Start, items, markReloaded))
    /\ lastOp' = <<"load", items, markReloaded>>
    /\ lastRet' = 0
    /\ UNCHANGED <<marks, live, clears, passes, built, fitted>>

\* ConstantShape<N>(shape) by the client.
ConstantShapeCall(shapes) ==
  \E shape \in shapes :
    /\ constantShape' = ConstantShapeFrom(shape)
    /\ aborted' = ConstantShapeFrom(shape).aborted
    /\ abortMsg' = IF aborted' THEN "Recompile with CONST_SHAPE_DIMS" ELSE ""
    /\ lastOp' = <<"ConstantShape", shape>>
    /\ UNCHANGED <<nodes, count_, nodesForward_, nodesBackward_, topNodes_,
                   shortterm_, longterm_, params_, reloaded_, inferenceOnly_,
                   checkpointing_, log, passes, clears, marks, lastRet, live,
                   built, throwing_, reserved_, used_, fitted, throwNan_>>

\* ------------------------------------------------- Spec: the whole interface
\* Registrations, passes and clear() in any order.
Param == ~aborted /\ Len(nodes) < MaxNodes /\ ParamCall(Names, Shapes, BOOLEAN)

Constant == ~aborted /\ Len(nodes) < MaxNodes /\ ConstantCall

Op == ~aborted /\ Len(nodes) < MaxNodes /\ OpCall(OpTypes, MaxNodes)

Forward == ~aborted /\ passes < MaxPasses /\ ForwardCall

Backward == ~aborted /\ passes < MaxPasses /\ BackwardCall

Backprop == ~aborted /\ passes < MaxPasses /\ BackpropCall

Clear ==
  /\ ~aborted /\ clears < MaxClears
  /\ Pass(clear(Start), "clear")
  /\ clears' = clears + 1
  /\ live' = {}
  /\ UNCHANGED passes

Next ==
  \/ Param
  \/ Constant
  \/ Op
  \/ Forward
  \/ Backward
  \/ Backprop
  \/ Clear

Spec == Init /\ [][Next]_vars

\* ------------------------------------ SpecPass: one graph, then its passes
\* A training graph is built over one parameter and constants, then
\* backprop() runs on it.  Every call of the build creates
\* a node (repeated expressions and repeated param() calls are Spec's).
InitPass == Init /\ ~inferenceOnly_

Fresh == Len(nodes') = Len(nodes) + 1

BuildParam ==
  ~aborted /\ passes = 0 /\ Len(nodes) < MaxPassNodes /\ ParamCall({"a"}, {1}, {FALSE})
  /\ Fresh

BuildConstant ==
  ~aborted /\ passes = 0 /\ Len(nodes) < MaxPassNodes /\ ConstantCall

BuildOp ==
  ~aborted /\ passes = 0 /\ Len(nodes) < MaxPassNodes
  /\ OpCall({"mul"}, MaxMarks)
  /\ Fresh

RunBackprop == ~aborted /\ passes = 0 /\ BackpropCall

NextPass ==
  \/ BuildParam
  \/ BuildConstant
  \/ BuildOp
  \/ RunBackprop

SpecPass == InitPass /\ [][NextPass]_vars

\* ------------------------------------ SpecProbe: a graph and capacity probes
\* A training graph over one parameter is built; the client reserves
\* workspace and probes the graph with fits().
InitProbe == Init /\ ~inferenceOnly_

ProbeParam ==
  ~aborted /\ passes = 0 /\ Len(nodes) < MaxProbeNodes
  /\ ParamCall({"a"}, {1}, {FALSE})
  /\ Fresh

ProbeOp ==
  ~aborted /\ passes = 0 /\ Len(nodes) < MaxProbeNodes
  /\ OpCall(OpTypes, MaxMarks)
  /\ Fresh

Reserve == ~aborted /\ ReserveCall(1..MaxBudget)

Fits == ~aborted /\ passes < MaxFits /\ FitsCall

NextProbe ==
  \/ ProbeParam
  \/ ProbeOp
  \/ Reserve
  \/ Fits

SpecProbe == InitProbe /\ [][NextProbe]_vars

\* ------------------------ SpecScenario: graphs over two parameters, run once
\* A training graph over the parameters a and b is built, then backprop()
\* runs on it.
ScenarioParam ==
  ~aborted /\ passes = 0 /\ Len(nodes) < MaxScenarioNodes
  /\ ParamCall(Names, {1}, {FALSE})
  /\ Fresh

ScenarioOp ==
  ~aborted /\ passes = 0 /\ Len(nodes) < MaxScenarioNodes
  /\ OpCall(OpTypes, 0)
  /\ Fresh

NextScenario ==
  \/ ScenarioParam
  \/ ScenarioOp
  \/ RunBackprop

SpecScenario == InitPass /\ [][NextScenario]_vars

\* --------------------------------- SpecShape: fixed-rank shapes are built
\* The shapes a client passes: up to MaxRank dimensions of 1..MaxDim.
ArgShapes == UNION {[1..n -> 1..MaxDim] : n \in 0..MaxRank}

\* No graph is involved.
InitShape == Init /\ ~inferenceOnly_ /\ ~checkpointing_

\* One object is constructed per behaviour.
Construct == lastOp = <<"new">> /\ ConstantShapeCall(ArgShapes)

\* The variables of the graph, which the calls on a shape leave alone.
graphVars ==
  <<nodes, count_, nodesForward_, nodesBackward_, topNodes_, shortterm_,
    longterm_, params_, reloaded_, inferenceOnly_, checkpointing_, aborted,
    abortMsg, log, passes, clears, marks, live, built, throwing_, reserved_,
    used_, fitted, throwNan_>>

\* set(i, dim) on the object.
Set ==
  /\ lastOp # <<"new">> /\ ~aborted
  /\ \E i \in Indices, dim \in 0..MaxDim :
       /\ constantShape' = set(constantShape, i, dim)
       /\ lastOp' = <<"set", i, dim>>
  /\ UNCHANGED <<graphVars, lastRet>>

\* index(si) for a linear index of the object.
Index ==
  /\ lastOp # <<"new">> /\ ~aborted
  /\ \E si \in 0..(constantShape.elements_ - 1) :
       /\ lastRet' = index(constantShape, si)
       /\ lastOp' = <<"index", si>>
  /\ UNCHANGED <<graphVars, constantShape>>

\* dims(si, d) on an array d of zeros, then index(d); d is kept in lastOp.
Dims ==
  /\ lastOp # <<"new">> /\ ~aborted
  /\ \E si \in 0..(constantShape.elements_ - 1) :
       /\ lastOp' = <<"dims", si,
                      dims(constantShape, si, [k \in Indices |-> 0])>>
       /\ lastRet' = indexDims(constantShape, lastOp'[3])
  /\ UNCHANGED <<graphVars, constantShape>>

NextShape ==
  \/ Construct
  \/ Set
  \/ Index
  \/ Dims

SpecShape == InitShape /\ [][NextShape]_vars

\* -------------------------- SpecParam: parameters by name, shape and reload
\* Parameters of two shapes are asked for, operations are composed, models
\* are loaded; forward() and clear() end the build cycles.
ParamShapes == {1, 2}

\* The models a client loads: up to MaxItems items of a name and a shape.
ItemLists ==
  UNION {[1..n -> (Names \cup SpecialNames) \X ParamShapes] :
           n \in 0..MaxItems}

NamedParam ==
  ~aborted /\ Len(nodes) < MaxParamNodes
  /\ ParamCall(Names, ParamShapes, {FALSE})

ParamOp ==
  ~aborted /\ Len(nodes) < MaxParamNodes
  /\ OpCall(OpTypes, 0)

Load ==
  ~aborted /\ Len(nodes) + MaxItems <= MaxParamNodes
  /\ LoadCall(ItemLists)

NextParam ==
  \/ NamedParam
  \/ ParamOp
  \/ Load
  \/ Forward
  \/ Clear

SpecParam == Init /\ [][NextParam]_vars

\* ------------------------------------ SpecTape: small graphs, several passes
\* Parameters and operations are registered before, between and after
\* forward() and backward(), in training and in inference mode.
TapeParam ==
  ~aborted /\ Len(nodes) < MaxTapeNodes
  /\ ParamCall(Names, {1}, {FALSE})

TapeOp ==
  ~aborted /\ Len(nodes) < MaxTapeNodes
  /\ OpCall(OpTypes, 0)

TapeForward == ~aborted /\ passes < MaxTapePasses /\ ForwardCall

TapeBackward == ~aborted /\ passes < MaxTapePasses /\ BackwardCall

NextTape ==
  \/ TapeParam
  \/ TapeOp
  \/ TapeForward
  \/ TapeBackward

SpecTape == Init /\ [][NextTape]_vars

\* --------------------------- SpecPlan: graphs with checkpoints, one pass
\* A training graph, with or without checkpointing, is built over one
\* parameter, with checkpoint marks on some operations; then forward() or
\* backprop() runs.
InitPlan == Init /\ ~inferenceOnly_

PlanParam ==
  ~aborted /\ passes = 0 /\ Len(nodes) < MaxPlanNodes
  /\ ParamCall({"a"}, {1}, {FALSE})

PlanOp ==
  ~aborted /\ passes = 0 /\ Len(nodes) < MaxPlanNodes
  /\ OpCall({"mul"}, MaxPlanMarks)

PlanForward == ~aborted /\ passes = 0 /\ ForwardCall

PlanBackprop == ~aborted /\ passes = 0 /\ BackpropCall

NextPlan ==
  \/ PlanParam
  \/ PlanOp
  \/ PlanForward
  \/ PlanBackprop

SpecPlan == InitPlan /\ [][NextPlan]_vars

\* -------------------------- SpecClip: backward() with a clipping value
\* The graphs of SpecScenario; forward() and then backward(true, clipValue).
ClipForward == ~aborted /\ passes = 0 /\ nodes # <<>> /\ ForwardCall

ClipBackward ==
  /\ ~aborted /\ passes = 1
  /\ \E clipValue \in 0..MaxClip :
       /\ Install(backward(Start, TRUE, clipValue))
       /\ lastOp' = <<"backward", clipValue>>
  /\ lastRet' = 0
  /\ built' = {}
  /\ passes' = passes + 1
  /\ UNCHANGED <<marks, fitted, live, clears>>

NextClip ==
  \/ ScenarioParam
  \/ ScenarioOp
  \/ ClipForward
  \/ ClipBackward

SpecClip == InitPass /\ [][NextClip]_vars

\* ------------------------- SpecNan: passes with the numeric-health check
\* setThrowNan(true) by the client.
SetThrowNan ==
  /\ ~aborted /\ ~throwNan_
  /\ throwNan_' = TRUE
  /\ lastOp' = <<"setThrowNan", TRUE>>
  /\ UNCHANGED <<nodes, count_, nodesForward_, nodesBackward_, topNodes_,
                 shortterm_, longterm_, params_, reloaded_, inferenceOnly_,
                 checkpointing_, aborted, abortMsg, log, passes, clears, marks,
                 lastRet, live, built, throwing_, reserved_, used_, fitted,
                 constantShape>>

NanParam ==
  ~aborted /\ passes = 0 /\ Len(nodes) < MaxNanNodes
  /\ ParamCall({"a"}, {1}, {FALSE})

NanOp ==
  ~aborted /\ passes = 0 /\ Len(nodes) < MaxNanNodes
  /\ OpCall({"mul"}, 0)

\* backprop() on values and gradients of which IsNan reports any subset.
NanBackprop ==
  /\ ~aborted /\ passes = 0
  /\ \E nv, ng \in SUBSET (1..Len(nodes)) :
       Pass(backprop([Start EXCEPT !.nanVals = nv, !.nanGrads = ng]),
            "backprop")
  /\ passes' = passes + 1
  /\ UNCHANGED <<live, clears>>

NextNan ==
  \/ SetThrowNan
  \/ NanParam
  \/ NanOp
  \/ NanBackprop

SpecNan == InitPass /\ [][NextNan]_vars

\* ------------------- SpecResident: the graphs of SpecPlan with a constant
\* One memoized constant (the constants of SpecPass are not memoized).
PlanConstant ==
  /\ ~aborted /\ passes = 0 /\ Len(nodes) < MaxPlanNodes
  /\ \A o \in 1..Len(nodes) : nodes[o].type # "const"
  /\ Registered(constant(Start, 1, TRUE))
  /\ lastOp' = <<"constant">>
  /\ UNCHANGED marks

NextResident ==
  \/ PlanParam
  \/ PlanConstant
  \/ PlanOp
  \/ PlanForward
  \/ PlanBackprop

SpecResident == InitPlan /\ [][NextResident]_vars

\* ------------------------------- SpecMemo: operations whose hashes collide
\* Parameters and operations over them are registered, in training and in
\* inference mode (where the operations are memoized); forward() and clear()
\* end the build cycles.
MemoParam ==
  ~aborted /\ Len(nodes) < MaxMemoNodes
  /\ ParamCall(Names, {1}, {FALSE})

MemoOp ==
  ~aborted /\ Len(nodes) < MaxMemoNodes
  /\ HashedOpCall(OpTypes, 1..HashRange)

MemoForward == ~aborted /\ passes < MaxPasses /\ ForwardCall

MemoBackward == ~aborted /\ passes < MaxPasses /\ BackwardCall

MemoForget == ~aborted /\ longterm_ # <<>> /\ ClearLongtermCall

NextMemo ==
  \/ MemoParam
  \/ MemoOp
  \/ MemoForward
  \/ MemoBackward
  \/ MemoForget
  \/ Clear

SpecMemo == Init /\ [][NextMemo]_vars

\* ---------------------------------------------------------------- properties
\* The objects that were given an id in the current build cycle.
Cycle == {o \in 1..Len(nodes) : nodes[o].regs > 0}

\* The gradient buffers of all objects.
Gradients == [o \in 1..Len(nodes) |-> <<nodes[o].hasGrad, nodes[o].grad>>]

\* The positions of the log entries of one kind about object o.
Positions(what, o) ==
  {i \in 1..Len(log) : log[i][1] = what /\ log[i][2] = o}

\* The log entries of one kind, in order.
Entries(l, what) == SelectSeq(l, LAMBDA e : e[1] = what)

\* C1: when backward() finds more than one root it aborts before any gradient
\* buffer is allocated, zeroed, seeded or written and before the tapes, the
\* root set or the short-term cache change; a backprop() that ends in this
\* abort has left the gradients, the backward tape and the root set alone.
C1_AbortBeforeGradients ==
  [][/\ (lastOp' = <<"backward">> /\ Cardinality(topNodes_) > 1)
          => /\ aborted'
             /\ abortMsg' = "more than one top most node"
             /\ Gradients' = Gradients
             /\ log' = <<>>
             /\ nodesForward_' = nodesForward_
             /\ nodesBackward_' = nodesBackward_
             /\ topNodes_' = topNodes_
             /\ shortterm_' = shortterm_
     /\ (lastOp' = <<"backprop">>
         /\ abortMsg' = "more than one top most node")
          => /\ Gradients' = Gradients
             /\ nodesBackward_' = nodesBackward_
             /\ topNodes_' = topNodes_
             /\ Entries(log', "allocGrad") = <<>>
             /\ Entries(log', "seed") = <<>>]_vars

\* backward() was called on a graph with parameters and several roots.
C1_SeveralRootsAborted ==
  /\ lastOp = <<"backward">>
  /\ aborted
  /\ abortMsg = "more than one top most node"
  /\ Cardinality(topNodes_) > 1
  /\ params_ # <<>>

\* C2 as stated: backward() aborts for every size of the root set other than
\* one, the empty root set included.
C2_AbortUnlessOneRoot ==
  [][(lastOp' = <<"backward">> /\ Cardinality(topNodes_) # 1)
       => aborted']_vars

\* C2 amended: backward() aborts on the root set exactly when it holds more
\* than one node; with one root or none it goes on, allocates the gradients
\* of the parameters and, unless it fails later, empties the root set and the
\* backward tape.
C2_AbortIffSeveralRoots ==
  [][lastOp' = <<"backward">>
       => /\ (abortMsg' = "more than one top most node")
               <=> (Cardinality(topNodes_) > 1)
          /\ Cardinality(topNodes_) <= 1
               => /\ \A p \in Range(params_) : nodes'[p].hasGrad
                  /\ ~aborted' => (topNodes_' = {} /\ nodesBackward_' = <<>>)]_vars

\* backward() ran to its end on an empty root set: nothing was seeded, the
\* gradients of the parameters are there.
C2_EmptyRootSetRuns ==
  /\ lastOp = <<"backward">>
  /\ ~aborted
  /\ params_ # <<>>
  /\ Entries(log, "seed") = <<>>
  /\ Entries(log, "allocGrad") # <<>>

\* The node the call of this step constructs is structurally identical to x.
SameAsCall(x) ==
  \/ /\ lastOp'[1] = "op"
     /\ nodes[x].type = lastOp'[2]
     /\ nodes[x].kids = <<lastOp'[3], lastOp'[4]>>
  \/ /\ lastOp'[1] = "param"
     /\ nodes[x].type = "param"
     /\ nodes[x].name = lastOp'[2]
     /\ nodes[x].shape = lastOp'[3]

\* C3 as stated: a registration of a node structurally identical to a node
\* registered earlier in the build cycle returns that node with its id,
\* whatever happened in between.
C3_SameNodeInCycle ==
  [][\A x \in Cycle :
       SameAsCall(x) => (lastRet' = x /\ nodes'[x].id = nodes[x].id)]_vars

\* C3 amended: a registration of a node structurally identical to a node that
\* a registration returned since the last forward or backward pass (and since
\* the last clear) returns that node, and the node keeps its id.
C3_SameNodeBetweenPasses ==
  [][\A x \in built :
       SameAsCall(x) => (lastRet' = x /\ nodes'[x].id = nodes[x].id)]_vars

\* A second param() of a name returned the node of the first, with another
\* node registered in between, and the node was given an id once.
C3_SecondCallReturnedFirst ==
  /\ lastOp[1] = "param"
  /\ lastRet # 0
  /\ lastRet < Len(nodes)
  /\ nodes[lastRet].name = lastOp[2]
  /\ nodes[lastRet].regs = 1
  /\ count_ = Len(nodes)

NoRepeat(s) == \A i, j \in 1..Len(s) : s[i] = s[j] => i = j

\* C4: in one build cycle every node is registered at most once: it is given
\* an id once, it is on the forward tape and on the backward tape at most
\* once, and no two registered nodes have the same id.
C4_RegisteredOnce ==
  /\ \A o \in 1..Len(nodes) : nodes[o].regs <= 1
  /\ NoRepeat(nodesForward_)
  /\ NoRepeat(nodesBackward_)
  /\ \A x, y \in Cycle : nodes[x].id = nodes[y].id => x = y

\* On the forward tape a node stands behind each node it depends on that is
\* on the tape.
TapeOrder ==
  \A j \in 1..Len(nodesForward_) :
    \A A \in Range(nodes[nodesForward_[j]].kids) \cap Range(nodesForward_) :
      \E i \in 1..(j - 1) : nodesForward_[i] = A

\* The objects of the log entries of one kind, in order.
Objects(l, what) ==
  [i \in 1..Len(Entries(l, what)) |-> Entries(l, what)[i][2]]

\* C5: a node stands behind its dependencies on the forward tape, and a
\* backward pass runs the backward steps of the trainable nodes in the
\* reverse of their order on the tape.
C5_TapeOrder ==
  [][/\ TapeOrder'
     /\ (lastOp' = <<"backprop">> /\ ~aborted')
          => Objects(log', "bwd") =
               Reverse(SelectSeq(nodesBackward_,
                                 LAMBDA o : nodes'[o].trainable))]_vars

\* The nodes that were built over h.
Parents(h) == {p \in 1..Len(nodes) : h \in Range(nodes[p].kids)}

\* What the backward step of p adds to the gradient of its i-th child.
Term(p, i) ==
  IF nodes[p].type = "mul"
  THEN nodes[p].grad * nodes[nodes[p].kids[3 - i]].val
  ELSE nodes[p].grad

\* What the backward step of p adds to the gradient of h.
Share(p, h) ==
  IF Len(nodes[p].kids) # 2 THEN 0
  ELSE (IF nodes[p].kids[1] = h THEN Term(p, 1) ELSE 0)
       + (IF nodes[p].kids[2] = h THEN Term(p, 2) ELSE 0)

RECURSIVE SumShares(_, _)
\* The shares of the objects p..Len(nodes) in the gradient of h.
SumShares(h, p) ==
  IF p > Len(nodes) THEN 0 ELSE Share(p, h) + SumShares(h, p + 1)

\* The trainable nodes other than parameters that two or more nodes consume.
Shared ==
  {h \in 1..Len(nodes) :
     /\ nodes[h].trainable
     /\ nodes[h].type # "param"
     /\ Cardinality(Parents(h)) >= 2}

\* C6: after a backward pass the gradient of a trainable node that is no
\* parameter and has two or more parents is the sum of what its parents
\* contributed; it was zeroed once, before the first parent's backward step.
C6_GradientIsSumOfShares ==
  (lastOp = <<"backprop">> /\ ~aborted)
    => \A h \in Shared :
         /\ nodes[h].grad = SumShares(h, 1) % Modulus
         /\ Cardinality(Positions("zero", h)) = 1
         /\ \A z \in Positions("zero", h) :
              \A p \in Parents(h) :
                \A b \in Positions("bwd", p) : z < b

\* A backward pass ended on a graph with a shared node whose gradient is
\* not zero.
C6_SharedNodeHasGradient ==
  /\ lastOp = <<"backprop">>
  /\ ~aborted
  /\ \E h \in Shared : nodes[h].grad # 0

\* backprop() on the same graph with checkpointing switched off.
PlainRun == backprop([Start EXCEPT !.checkpointing_ = FALSE])

\* The gradients of the parameters in the node table ns.
ParamGradients(ns) == [i \in 1..Len(params_) |-> ns[params_[i]].grad]

\* C7: backprop() with checkpointing runs the backward steps that backprop()
\* without checkpointing runs on the same graph, in the same order, reading
\* the same values, and ends with the same gradients of the parameters.
C7_CheckpointingEquivalence ==
  [][(lastOp' = <<"backprop">> /\ checkpointing_)
       => /\ aborted' = PlainRun.aborted
          /\ Entries(log', "bwd") = Entries(PlainRun.log, "bwd")
          /\ ParamGradients(nodes') = ParamGradients(PlainRun.nodes)]_vars

\* C8: clear() leaves the forward tape, the backward tape and the root set
\* empty and every parameter reachable by its name, as the same node with the
\* same value; the node registered next gets the id 0, and param() of an
\* existing name returns the parameter's node.
C8_ClearSemantics ==
  [][/\ lastOp' = <<"clear">>
          => /\ nodesForward_' = <<>>
             /\ nodesBackward_' = <<>>
             /\ topNodes_' = {}
             /\ count_' = 0
             /\ \A p \in Range(params_) :
                  /\ get(G', nodes[p].name) = p
                  /\ nodes'[p].hasVal = nodes[p].hasVal
                  /\ nodes'[p].val = nodes[p].val
     /\ (lastOp = <<"clear">> /\ count_' > count_)
          => (lastRet' # 0 /\ nodes'[lastRet'].id = 0)
     /\ (lastOp = <<"clear">> /\ lastOp'[1] = "param"
         /\ get(G, lastOp'[2]) # 0 /\ ~aborted')
          => /\ lastRet' = get(G, lastOp'[2])
             /\ nodes'[lastRet'].val = nodes[lastRet'].val]_vars

\* clear() was called on a graph that had given ids and holds a parameter
\* with a computed value.
C8_ClearedWithParameters ==
  /\ lastOp = <<"clear">>
  /\ \E p \in Range(params_) : nodes[p].hasVal /\ nodes[p].val # 0
  /\ \E o \in 1..Len(nodes) : nodes[o].id > 0

C10_RootsAreUnconsumed ==
  \A r \in topNodes_ :
    \A o \in Cycle : o # r => r \notin Range(nodes[o].kids)

RECURSIVE IsSubseq(_, _)
\* s is a subsequence of t: t with some elements left out, the order kept.
IsSubseq(s, t) ==
  IF s = <<>> THEN TRUE
  ELSE IF t = <<>> THEN FALSE
       ELSE IF Head(s) = Head(t) THEN IsSubseq(Tail(s), Tail(t))
            ELSE IsSubseq(s, Tail(t))

\* C11 as stated: in every reachable state the backward tape is a
\* subsequence of the forward tape.
C11_BackwardTapeInForwardTape == IsSubseq(nodesBackward_, nodesForward_)

\* C11 amended: as long as forward() has taken no node from the forward tape
\* since the last clear (the tape still holds every registration of the build
\* cycle), the backward tape is a subsequence of the forward tape.
C11_BackwardTapeInUnconsumedTape ==
  Len(nodesForward_) = count_ => IsSubseq(nodesBackward_, nodesForward_)

\* A graph under construction whose backward tape holds two nodes and leaves
\* out a node of the forward tape that stands between them.
C11_ProperSubsequence ==
  /\ Len(nodesForward_) = count_
  /\ Len(nodesBackward_) >= 2
  /\ \E i, j, k \in 1..Len(nodesForward_) :
       /\ i < j /\ j < k
       /\ nodesForward_[i] = nodesBackward_[1]
       /\ nodesForward_[k] = nodesBackward_[2]
       /\ nodesForward_[j] \notin Range(nodesBackward_)

\* An allocation of the last call went beyond the reserved workspace while
\* the allocator was in throwing mode.
Exceeded == \E i \in 1..Len(log) : log[i][1] = "throw"

\* C12: whenever no call is in progress the allocator is in its normal,
\* non-throwing mode, and a call of fits() that returned has returned false
\* exactly when an allocation of its forward and backward pass exceeded the
\* reserved workspace.
C12_FitsRestoresNormalMode ==
  ~aborted => /\ ~throwing_
              /\ lastOp = <<"fits">> => (fitted <=> ~Exceeded)

\* fits() has returned false after an allocation exceeded the workspace, and
\* the allocator is in normal mode.
C12_FailedProbeReturned ==
  /\ ~aborted
  /\ lastOp = <<"fits">>
  /\ ~fitted
  /\ Exceeded
  /\ ~throwing_

\* C13 as stated: a call of fits() that returns false leaves the forward
\* tape, the backward tape and the root set as they were before the call.
C13_FailedProbeKeepsTapes ==
  [][(lastOp' = <<"fits">> /\ passes' = passes + 1 /\ ~aborted' /\ ~fitted')
       => /\ nodesForward_' = nodesForward_
          /\ nodesBackward_' = nodesBackward_
          /\ topNodes_' = topNodes_]_vars

\* C14 as stated: a registration of an operation that returns an existing
\* node returns a node of the requested kind over the requested children,
\* whichever cache found it.
C14_FoundNodeIsEqual ==
  (~aborted /\ lastOp[1] = "op" /\ lastRet # 0)
    => /\ nodes[lastRet].type = lastOp[2]
       /\ nodes[lastRet].kids = <<lastOp[3], lastOp[4]>>

\* The parameter of the name the last call asked for, before the call.
Asked == paramsGet(G, lastOp'[2])

\* The step is a call of param() by the client.
ParamStep == lastOp'[1] = "param"

\* The call of the step left the tapes and the root set as they were.
TapesKept ==
  /\ nodesForward_' = nodesForward_
  /\ nodesBackward_' = nodesBackward_
  /\ topNodes_' = topNodes_

\* C15: param(name, shape) for an existing name aborts when the shape
\* differs and then leaves the parameter set, the tapes and the root set as
\* they were; with the shape of the parameter it returns the existing node
\* and the parameter set is as it was.
C15_ExistingParameterShape ==
  [][(ParamStep /\ Asked # 0)
       => /\ params_' = params_
          /\ IF lastOp'[3] # nodes[Asked].shape
             THEN aborted' /\ TapesKept /\ Len(nodes') = Len(nodes)
             ELSE ~aborted' /\ lastRet' = Asked
                  /\ Len(nodes') = Len(nodes)]_vars

\* param() for an existing name with another shape has aborted.
C15_ShapeMismatchAborted ==
  /\ aborted
  /\ abortMsg = "shape of existing parameter"
  /\ lastOp[1] = "param"
  /\ paramsGet(G, lastOp[2]) # 0
  /\ nodesForward_ # <<>>

\* C16: on a reloaded graph param() with a new name aborts, adds no
\* parameter and registers no node; param() with an existing name and its
\* shape returns the parameter; and no call but load(), which unsets the
\* flag while it runs, makes the parameter set grow while the flag is set.
C16_ReloadedGraphIsClosed ==
  [][reloaded_
       => /\ lastOp'[1] # "load" => params_' = params_
          /\ (ParamStep /\ Asked = 0)
               => aborted' /\ TapesKept /\ nodes' = nodes
                  /\ count_' = count_
          /\ (ParamStep /\ Asked # 0 /\ lastOp'[3] = nodes[Asked].shape)
               => ~aborted' /\ lastRet' = Asked]_vars

\* On a reloaded graph with a parameter, param() with a new name has
\* aborted.
C16_NewNameAborted ==
  /\ reloaded_
  /\ aborted
  /\ abortMsg = "reloaded and parameter newly created"
  /\ params_ # <<>>
  /\ paramsGet(G, lastOp[2]) = 0

\* C17: a parameter keeps its name; param(name) returns a parameter of that
\* name, and it returns a parameter that existed before the call exactly
\* when that parameter has the name: the same name gives the same node,
\* another name another node, whatever the shapes and whatever calls of
\* param(), operations, forward() and clear() came between.
C17_ParameterIdentityByName ==
  [][/\ \A p \in Range(params_) :
          p \in Range(params_') /\ nodes'[p].name = nodes[p].name
     /\ (ParamStep /\ ~aborted')
          => /\ lastRet' \in Range(params_')
             /\ nodes'[lastRet'].name = lastOp'[2]
             /\ \A p \in Range(params_) :
                  (p = lastRet') <=> (nodes[p].name = lastOp'[2])]_vars

\* After clear(), param() returned the older of two parameters of one shape.
C17_SameNodeAfterClear ==
  /\ ~aborted
  /\ lastOp[1] = "param"
  /\ clears = 1
  /\ Len(params_) = 2
  /\ lastRet = params_[1]
  /\ nodes[params_[1]].shape = nodes[params_[2]].shape
  /\ nodes[params_[1]].name # nodes[params_[2]].name

\* backprop() has run on the graph y = a + (a * b) and on nothing else: pa
\* and pb are the parameters a and b, m is a * b.
Scenario(pa, pb, m, y) ==
  /\ ~aborted
  /\ lastOp = <<"backprop">>
  /\ Len(nodes) = 4
  /\ nodes[pa].type = "param" /\ nodes[pa].name = "a"
  /\ nodes[pb].type = "param" /\ nodes[pb].name = "b"
  /\ nodes[m].type = "mul" /\ Range(nodes[m].kids) = {pa, pb}
  /\ nodes[y].type = "add" /\ Range(nodes[y].kids) = {pa, m}

\* C18 as stated: with a = 1 and b = 2 everywhere, y = (a * b) + a comes out
\* as 3, the gradient of a as 3 and the gradient of b as 2.
C18_ScenarioAsStated ==
  \A pa, pb, m, y \in 1..Len(nodes) :
    Scenario(pa, pb, m, y)
      => nodes[y].val = 3 /\ nodes[pa].grad = 3 /\ nodes[pb].grad = 2

\* C18 amended: y comes out as 3, the gradient of a as b + 1 = 3 and the
\* gradient of b as a = 1.
C18_ScenarioGradients ==
  \A pa, pb, m, y \in 1..Len(nodes) :
    Scenario(pa, pb, m, y)
      => /\ nodes[y].hasVal /\ nodes[y].val = 3
         /\ nodes[pa].hasGrad /\ nodes[pa].grad = 3
         /\ nodes[pb].hasGrad /\ nodes[pb].grad = 1

\* backprop() has run on y = a + (a * b).
C18_ScenarioRun ==
  \E pa, pb, m, y \in 1..Len(nodes) :
    Scenario(pa, pb, m, y) /\ nodes[y].hasGrad /\ nodes[y].grad = 1

\* C19: ConstantShape<N> from a shape of M dimensions aborts when M > N;
\* for M <= N the last M dimensions of shape_ are those of the shape, in
\* order, and the N - M dimensions before them are 1.
C19_RightAligned ==
  lastOp[1] = "ConstantShape"
    => IF Len(lastOp[2]) > CONST_SHAPE_DIMS
       THEN aborted
       ELSE /\ ~aborted
            /\ \A i \in Indices :
                 constantShape.shape_[i] =
                   IF i < CONST_SHAPE_DIMS - Len(lastOp[2]) THEN 1
                   ELSE lastOp[2][i - (CONST_SHAPE_DIMS - Len(lastOp[2])) + 1]

\* A shape of two dimensions, both larger than 1, was embedded.
C19_TwoDimensionsEmbedded ==
  /\ ~aborted
  /\ lastOp[1] = "ConstantShape"
  /\ Len(lastOp[2]) = 2
  /\ lastOp[2][1] > 1
  /\ lastOp[2][2] > lastOp[2][1]
  /\ constantShape.elements_ = lastOp[2][1] * lastOp[2][2]

\* The entries of the log of the step's call before entry i that hand out
\* (kind) or release (release) the buffer of o.
Before(i, o, kind, release) ==
  {j \in 1..(i - 1) : log'[j][2] = o /\ log'[j][1] \in {kind, release}}

\* The largest element of a non-empty set of numbers.
Last(S) == CHOOSE j \in S : \A k \in S : k <= j

\* Each time the step's call handed out a buffer of kind to o, o had none:
\* the call had released it before, or o had none (had) when the call began
\* and the call had not handed one out yet.
HandedOutWhenAbsent(o, kind, release, had) ==
  \A i \in 1..Len(log') :
    (log'[i][1] = kind /\ log'[i][2] = o)
      => IF Before(i, o, kind, release) = {} THEN ~had
         ELSE log'[Last(Before(i, o, kind, release))][1] = release

\* C20: a call allocates the value of a node only when the node has none and
\* the gradient only when the node has none: between two releases of a
\* buffer there is at most one allocation of it.  No call releases a single
\* gradient (clear() drops them all), so no "freeGrad" is ever logged and a
\* call allocates the gradient of a node at most once.
C20_AllocatedOnceBetweenReleases ==
  [][\A o \in 1..Len(nodes') :
       /\ HandedOutWhenAbsent(o, "alloc", "free",
                              o <= Len(nodes) /\ nodes[o].hasVal)
       /\ HandedOutWhenAbsent(o, "allocGrad", "freeGrad",
                              o <= Len(nodes) /\ nodes[o].hasGrad)]_vars

\* A pass allocated the value of a node, released it and allocated it again
\* for the replay, and asked for the value of a parameter that was there.
C20_ReallocatedAfterRelease ==
  /\ ~aborted
  /\ \E o \in 1..Len(nodes), i, j, k \in 1..Len(log) :
       /\ i < j /\ j < k
       /\ log[i] = <<"alloc", o>>
       /\ log[j] = <<"free", o>>
       /\ log[k] = <<"alloc", o>>
  /\ \E p \in Range(params_) :
       Cardinality({i \in 1..Len(log) : log[i] = <<"alloc", p>>}) = 1

\* C21 as stated: the backward tape holds trainable nodes only, and in
\* inference mode the backward tape and the root set are empty.
C21_BackwardTapeIsTrainable ==
  /\ \A o \in Range(nodesBackward_) : nodes[o].trainable
  /\ inferenceOnly_ => (nodesBackward_ = <<>> /\ topNodes_ = {})

\* The step is a registration by the client that returned.
RegistrationStep ==
  lastOp'[1] \in {"param", "constant", "op"} /\ ~aborted'

\* add() of the step found the node in a cache: an existing parameter that
\* the short-term cache holds, or an operation for which an older node came
\* back.
FoundInCache ==
  IF ParamStep
  THEN Asked # 0 /\ findOrRemember(G, Asked).found # 0
  ELSE lastRet' <= Len(nodes)

\* C22: a registration that finds the node in a cache returns an existing
\* node and leaves the id counter, the tapes and the root set as they were;
\* any other registration gives the node the id count_, appends it to the
\* forward tape and adds one to count_, so that the ids handed out since
\* clear() are 0, 1, 2, ... in the order of the appends.
C22_FoundLeavesGraphAlone ==
  [][RegistrationStep
       => IF FoundInCache
          THEN count_' = count_ /\ TapesKept /\ lastRet' <= Len(nodes)
          ELSE /\ count_' = count_ + 1
               /\ nodesForward_' = Append(nodesForward_, lastRet')
               /\ nodes'[lastRet'].id = count_]_vars

\* param() found the older of two parameters in the short-term cache: the
\* tape and the counter are those of the two registrations.
C22_FoundParameter ==
  /\ ~aborted
  /\ lastOp[1] = "param"
  /\ nodesForward_ = <<1, 2>>
  /\ lastRet = 1
  /\ count_ = 2
  /\ nodes[1].id = 0 /\ nodes[2].id = 1

\* s is t or a front part of t.
IsPrefix(s, t) == Len(s) <= Len(t) /\ s = SubSeq(t, 1, Len(s))

\* C23: forward(), clear() and a backward() that passes the root check
\* leave the short-term cache empty, and a registration adds at most the
\* node it returns, so the cache holds nodes registered since the last of
\* these calls only; forward(), backward() and clear() leave the long-term
\* cache as it is, and only clearLongtermMemory() takes entries out of it.
C23_CacheLifetimes ==
  [][/\ (lastOp'[1] \in {"forward", "clear"}
          \/ (lastOp'[1] = "backward" /\ ~aborted'))
          => shortterm_' = <<>>
     /\ lastOp'[1] \in {"param", "constant", "op"}
          => (shortterm_' = shortterm_
              \/ (~aborted' /\ shortterm_' = Append(shortterm_, lastRet')))
     /\ lastOp'[1] \in {"forward", "backward", "clear"}
          => longterm_' = longterm_
     /\ IF lastOp'[1] = "clearLongtermMemory" THEN longterm_' = <<>>
        ELSE IsPrefix(longterm_, longterm_')]_vars

\* backward() has emptied the short-term cache of a build cycle whose
\* registrations are still in the long-term cache.
C23_BackwardEmptiedShortterm ==
  /\ ~aborted
  /\ lastOp = <<"backward">>
  /\ clears = 0
  /\ count_ > 0
  /\ shortterm_ = <<>>
  /\ longterm_ # <<>>

\* C24: the long-term cache holds memoized nodes that are no parameters,
\* and a call of param() neither puts a node into it nor gets its node from
\* it.
C24_NoParameterInLongterm ==
  [][/\ \A o \in Range(longterm_') :
          nodes'[o].type # "param" /\ nodes'[o].memo
     /\ ParamStep
          => /\ longterm_' = longterm_
             /\ ~aborted' => lastRet' \notin Range(longterm_')]_vars

\* In inference mode a memoized parameter was registered while the
\* long-term cache held an operation.
C24_MemoizedParameterRegistered ==
  /\ ~aborted
  /\ inferenceOnly_
  /\ lastOp[1] = "param"
  /\ nodes[lastRet].memo
  /\ nodes[lastRet].regs > 0
  /\ longterm_ # <<>>

\* C25 as stated: a node that a registration gets from the long-term cache
\* has its value, or is on the forward tape and will be evaluated.
C25_LongtermNodeHasValue ==
  (~aborted /\ lastOp[1] = "op" /\ lastRet \in Range(longterm_))
    => nodes[lastRet].hasVal \/ lastRet \in Range(nodesForward_)

\* The entries of the log of the step's call that are of kind and about o.
Events(kind, o) ==
  {i \in 1..Len(log') : log'[i][1] = kind /\ log'[i][2] = o}

\* C26 as stated: a forward pass that returns leaves the forward tape empty
\* and has run forward() exactly once on every node that was on the tape, in
\* tape order, after the allocation and the initialisation of the node.
C26_EveryNodeOnce ==
  [][(lastOp' = <<"forward">> /\ ~aborted')
       => /\ nodesForward_' = <<>>
          /\ \A o \in Range(nodesForward_) :
               /\ Cardinality(Events("fwd", o)) = 1
               /\ \A i \in Events("alloc", o) \cup Events("init", o),
                     j \in Events("fwd", o) : i < j
          /\ \A i, j \in 1..Len(nodesForward_) :
               i < j => \A k \in Events("fwd", nodesForward_[i]),
                          l \in Events("fwd", nodesForward_[j]) : k < l]_vars

\* The step is a forward(), backward() or backprop() call.
PassStep(names) == lastOp'[1] \in names

\* C27: in inference mode forward() leaves the nodes it has run forward()
\* on without children and the nodes it has not reached with theirs; in
\* training mode a child list changes only by being emptied in backward()
\* for a node of the backward tape that backward() has dealt with, and a
\* backward() that returns has emptied the list of every node of the tape.
C27_ChildListsReleased ==
  [][/\ (inferenceOnly_ /\ PassStep({"forward"}))
          => \A o \in 1..Len(nodes) :
               nodes'[o].children =
                 IF Events("fwd", o) # {} THEN <<>> ELSE nodes[o].children
     /\ ~inferenceOnly_
          => \A o \in 1..Len(nodes) :
               nodes'[o].children # nodes[o].children
                 => /\ PassStep({"backward", "backprop"})
                    /\ o \in Range(nodesBackward_)
                    /\ o \notin Range(nodesBackward_')
                    /\ nodes'[o].children = <<>>
                    /\ nodes[o].trainable => Events("bwd", o) # {}
     /\ (PassStep({"backward", "backprop"}) /\ ~aborted')
          => \A o \in Range(nodesBackward_) : nodes'[o].children = <<>>]_vars

\* In inference mode forward() has run on an operation and its parameter:
\* the operation has no children left.
C27_DroppedInInference ==
  /\ inferenceOnly_
  /\ lastOp = <<"forward">>
  /\ ~aborted
  /\ nodesForward_ = <<>>
  /\ \E o \in 1..Len(nodes) :
       /\ nodes[o].kids # <<>>
       /\ nodes[o].children = <<>>
       /\ nodes[o].hasVal

\* The entries of the log of the step's call that record a backward().
BackwardEvents == {i \in 1..Len(log') : log'[i][1] = "bwd"}

\* The call of the step reaches the loop of backward() with the values of
\* the graph computed: at most one root, in backprop() a forward pass that
\* ran to its end, in backward() the values of the nodes of the tape there.
BackwardStarts ==
  /\ PassStep({"backward", "backprop"})
  /\ Cardinality(topNodes_) <= 1
  /\ IF lastOp'[1] = "backprop" THEN ~graphForward(G).aborted
     ELSE \A o \in Range(nodesBackward_) : nodes[o].hasVal

\* C28 as stated: a backward pass that passes the root check ends with the
\* backward tape and the root set empty, has run backward() exactly once on
\* every trainable node of the backward tape, after the root was seeded, and
\* has zeroed the gradient of each trainable child that is no parameter
\* before the backward() of its parent.
C28_BackwardPassCompletes ==
  [][BackwardStarts
       => /\ ~aborted'
          /\ nodesBackward_' = <<>>
          /\ topNodes_' = {}
          /\ \A o \in Range(nodesBackward_) :
               nodes[o].trainable => Cardinality(Events("bwd", o)) = 1
          /\ \A r \in topNodes_ :
               /\ Events("seed", r) # {}
               /\ \A i \in Events("seed", r), j \in BackwardEvents : i < j
          /\ \A v \in Range(nodesBackward_) :
               \A c \in Range(nodes[v].children) :
                 (nodes[c].trainable /\ nodes[c].type # "param")
                   => \E i \in Events("zero", c) :
                        \A j \in Events("bwd", v) : i < j]_vars

\* The graph as the checkpoint planner of forwardNext leaves it.
Planned == planCheckpoints(G)

\* A pass that runs the planner.
PlannerStep == PassStep({"forward", "backprop"}) /\ checkpointing_

\* The nodes whose subtape in g holds n.
OnSubtapeOf(g, n) ==
  {o \in 1..Len(g.nodes) : n \in Range(g.nodes[o].subtape)}

\* The positions of n in the sequence s.
Occurrences(s, n) == {i \in 1..Len(s) : s[i] = n}

\* The subtape s is in post-order in g: the children of a node of s that are
\* not checkpoints and are on s come before the node.
PostOrder(g, s) ==
  \A i \in 1..Len(s) :
    \A c \in Range(g.nodes[s[i]].kids) :
      (~isCheckpoint(g, c) /\ c \in Range(s))
        => \E j \in 1..(i - 1) : s[j] = c

\* C29: after the planner has run, every node that is not a checkpoint is on
\* at most one subtape and at most once on it, and every subtape is in
\* post-order; forward() leaves the subtapes as the planner made them.
C29_SubtapesDisjointPostOrder ==
  [][PlannerStep
       => /\ \A n \in 1..Len(nodes) :
               ~isCheckpoint(Planned, n)
                 => /\ Cardinality(OnSubtapeOf(Planned, n)) <= 1
                    /\ \A o \in 1..Len(nodes) :
                         Cardinality(Occurrences(Planned.nodes[o].subtape, n))
                           <= 1
          /\ \A o \in 1..Len(nodes) :
               PostOrder(Planned, Planned.nodes[o].subtape)
          /\ lastOp'[1] = "forward"
               => \A o \in 1..Len(nodes) :
                    nodes'[o].subtape = Planned.nodes[o].subtape]_vars

\* forward() ran the planner on a graph with two checkpoints whose subtapes
\* are not empty, one of them holding a node that two nodes have as a child.
C29_TwoSubtapesSharedNode ==
  /\ lastOp = <<"forward">>
  /\ \E o1, o2 \in 1..Len(nodes) :
       /\ o1 # o2
       /\ nodes[o1].subtape # <<>>
       /\ nodes[o2].subtape # <<>>
       /\ \E n \in Range(nodes[o1].subtape), p1, p2 \in 1..Len(nodes) :
            /\ p1 # p2
            /\ n \in Range(nodes[p1].kids)
            /\ n \in Range(nodes[p2].kids)

\* The graph after the planner's walk over the backward tape, before the
\* roots' subtapes are folded.
PlannerWalked ==
  PlanAll(markCheckpointAll(G, SetToSeq(topNodes_)), Reverse(nodesBackward_))

\* The nodes the planner's walk has placed on the subtape of a root.
RootSubtapeNodes ==
  UNION {Range(PlannerWalked.nodes[r].subtape) : r \in topNodes_}

\* The log entries of the pass that backward() wrote.
BackwardPhase ==
  {i \in 1..Len(log') :
     log'[i][1] \in {"allocGrad", "zeroParam", "seed", "zero", "bwd"}}

\* C30: when the planner finishes, every root is marked as a checkpoint and
\* has an empty subtape, and every node the planner had placed on a root's
\* subtape is marked as a checkpoint; the pass frees none of these nodes and
\* backward() runs forward() on none of them (no recomputation).
C30_RootSubtapeFolded ==
  [][PlannerStep
       => /\ \A r \in topNodes_ :
               /\ Planned.nodes[r].mark
               /\ Planned.nodes[r].subtape = <<>>
               /\ nodes'[r].mark
               /\ nodes'[r].subtape = <<>>
          /\ \A n \in RootSubtapeNodes \cup topNodes_ :
               /\ Planned.nodes[n].mark
               /\ nodes'[n].mark
               /\ Events("free", n) = {}
               /\ \A i \in Events("fwd", n), j \in BackwardPhase : i < j]_vars

\* backprop() ran to the end on a graph with one checkpoint set by the
\* client: the root and a node between the checkpoint and the root are
\* marked too, and a node of the checkpoint's subtape was recomputed.
C30_FoldedAndReplayed ==
  /\ lastOp = <<"backprop">>
  /\ ~aborted
  /\ marks = 1
  /\ Cardinality({o \in 1..Len(nodes) :
                    nodes[o].mark /\ nodes[o].kids # <<>>}) >= 3
  /\ \E o \in 1..Len(nodes) : Cardinality(Positions("fwd", o)) = 2

\* The log entries of kind about o that the forward pass wrote, before
\* backward() began.
ForwardEvents(kind, o) ==
  {i \in Events(kind, o) : \A j \in BackwardPhase : i < j}

\* The nodes the forward pass freed.
FreedByForward ==
  {o \in 1..Len(nodes) : ForwardEvents("free", o) # {}}

\* C31: with checkpointing the first forward pass frees, right after a node's
\* forward(), the value of every node on that node's subtape, and frees no
\* checkpoint; without checkpointing the forward pass frees nothing.
C31_ForwardFreesSubtapes ==
  [][PassStep({"forward", "backprop"})
       => /\ checkpointing_
               => /\ \A v \in 1..Len(nodes) :
                       \A n \in Range(Planned.nodes[v].subtape) :
                         \A i \in ForwardEvents("fwd", v) :
                           \E k \in ForwardEvents("free", n) :
                             /\ i < k
                             /\ \A m \in (i + 1)..(k - 1) :
                                  log'[m][1] = "free"
                  /\ \A o \in FreedByForward : ~isCheckpoint(Planned, o)
          /\ ~checkpointing_ => FreedByForward = {}]_vars

\* forward() with checkpointing freed two nodes of one subtape and left the
\* values of the checkpoints in place.
C31_SubtapeFreed ==
  /\ lastOp = <<"forward">>
  /\ checkpointing_
  /\ ~aborted
  /\ \E v \in 1..Len(nodes) :
       /\ Len(nodes[v].subtape) >= 2
       /\ nodes[v].hasVal
       /\ \A n \in Range(nodes[v].subtape) :
            ~nodes[n].hasVal /\ Positions("free", n) # {}

\* The log entries of kind about o that backward() wrote.
ReplayEvents(kind, o) == Events(kind, o) \ ForwardEvents(kind, o)

\* backward() re-evaluated the subtape s before entry j of the log: allocate,
\* init (logged for a node with an initializer) and forward() of each node,
\* the nodes in the order of s.
Replayed(s, j) ==
  /\ \A k \in 1..Len(s) :
       \E a \in ReplayEvents("alloc", s[k]), f \in ReplayEvents("fwd", s[k]) :
         /\ a < f
         /\ f < j
         /\ \A b \in ReplayEvents("init", s[k]) : a < b /\ b < f
  /\ \A k, l \in 1..Len(s) :
       k < l => \A f \in ReplayEvents("fwd", s[k]),
                   h \in ReplayEvents("fwd", s[l]) : f < h

\* The value of every node of s is freed after entry j of the log, before
\* the next node's backward().
FreedAfter(s, j) ==
  \A n \in Range(s) :
    \E k \in ReplayEvents("free", n) :
      /\ j < k
      /\ \A m \in (j + 1)..(k - 1) : log'[m][1] # "bwd"

\* C32: in backward() with checkpointing the subtape of a node is
\* re-evaluated in subtape order before the node's backward(), every value
\* of the subtape is freed right after the node's backward(), and the
\* subtape is empty afterwards.
C32_SubtapeReplayedAndFreed ==
  [][(PassStep({"backprop"}) /\ checkpointing_ /\ ~aborted')
       => \A v \in 1..Len(nodes) :
            \A j \in Events("bwd", v) :
              /\ Replayed(Planned.nodes[v].subtape, j)
              /\ FreedAfter(Planned.nodes[v].subtape, j)
              /\ nodes'[v].subtape = <<>>]_vars

\* C33: with checkpointing no pass stops at a freed child: forward(), in the
\* first pass and in a replay, finds the value of every child, and
\* backward() of a node finds the node's and its children's values.
C33_NoFreedChildIsRead ==
  [][(PassStep({"forward", "backprop"}) /\ checkpointing_)
       => /\ ~(aborted' /\ abortMsg' \in {"De-allocated child",
                                          "null dereference in backward"})
          /\ \A i \in 1..Len(log') :
               log'[i][1] = "fwd"
                 => \A k \in DOMAIN log'[i][3] : log'[i][3][k]]_vars

\* The parameters and the memoized constants: the nodes that stay resident.
Resident ==
  {o \in 1..Len(nodes) :
     nodes[o].type = "param" \/ (nodes[o].type = "const" /\ nodes[o].memo)}

QuietRun == backprop([Start EXCEPT !.throwNan_ = FALSE])

\* The log without the numeric-health warnings.
WithoutWarnings(l) == SelectSeq(l, LAMBDA e : e[1] \notin {"nanVal", "nanGrad"})

\* C35: a pass with the numeric-health check does to the graph what the pass
\* without it does, step by step, whatever is detected, and the backward
\* pass logs the gradient warning at most once.
C35_DetectionOnlyLogs ==
  [][(lastOp' = <<"backprop">> /\ throwNan_)
       => /\ nodes' = QuietRun.nodes
          /\ nodesForward_' = QuietRun.nodesForward_
          /\ nodesBackward_' = QuietRun.nodesBackward_
          /\ topNodes_' = QuietRun.topNodes_
          /\ aborted' = QuietRun.aborted
          /\ WithoutWarnings(log') = QuietRun.log
          /\ Len(Entries(log', "nanGrad")) <= 1]_vars

\* C36: backward(zero, clipValue) with a non-zero clipValue hands every
\* trainable node's gradient to the node's backward() clipped to clipValue;
\* with clipValue = 0 the pass is the pass of backward(zero).
C36_GradientsClipped ==
  [][(lastOp'[1] = "backward" /\ Len(lastOp') = 2 /\ ~aborted')
       => /\ lastOp'[2] # 0
               => \A i \in 1..Len(log') :
                    log'[i][1] = "bwd" => log'[i][3] <= lastOp'[2]
          /\ lastOp'[2] = 0
               => /\ nodes' = backward(Start, TRUE, 0).nodes
                  /\ log' = backward(Start, TRUE, 0).log]_vars

\* The items of the load() of this step that do not name a special entry.
Wanted == SelectSeq(lastOp'[2], LAMBDA it : it[1] \notin SpecialNames)

\* An item of the load() of this step asks for a parameter that exists, or
\* that an earlier item has created, with another shape.
ShapeConflict ==
  \E i \in 1..Len(Wanted) :
    \/ /\ paramsGet(G, Wanted[i][1]) # 0
       /\ nodes[paramsGet(G, Wanted[i][1])].shape # Wanted[i][2]
    \/ \E j \in 1..(i - 1) :
         Wanted[j][1] = Wanted[i][1] /\ Wanted[j][2] # Wanted[i][2]

\* C37: load(items, markReloaded) works with the reloaded flag cleared, asks
\* for one parameter per item that is not named "special:...", and aborts
\* exactly when an item asks for an existing parameter with another shape;
\* after a load that did not abort the flag is markReloaded, whatever it was.
C37_LoadRequestsParameters ==
  [][lastOp'[1] = "load"
       => /\ aborted' <=> ShapeConflict
          /\ aborted' => abortMsg' = "shape of existing parameter"
          /\ ~aborted'
               => /\ reloaded_' = lastOp'[3]
                  /\ \A i \in 1..Len(Wanted) :
                       /\ paramsGet(G', Wanted[i][1]) # 0
                       /\ nodes'[paramsGet(G', Wanted[i][1])].shape
                            = Wanted[i][2]
                  /\ \A n \in SpecialNames : paramsGet(G', n) = 0
                  /\ Len(params_') =
                       Len(params_)
                         + Cardinality({Wanted[i][1] : i \in 1..Len(Wanted)}
                                         \ {nodes[q].name : q \in Range(params_)})
                  /\ \A q \in Range(params_) : q \in Range(params_')]_vars

\* load() of a special item and a new parameter ran on a graph that holds a
\* parameter already and left the graph marked as reloaded.
C37_LoadedSkippingSpecial ==
  /\ lastOp[1] = "load"
  /\ ~aborted
  /\ reloaded_
  /\ Len(lastOp[2]) = 2
  /\ lastOp[2][1][1] \in SpecialNames
  /\ lastOp[2][2][1] \notin SpecialNames
  /\ Len(params_) = 2
  /\ paramsGet(G, lastOp[2][2][1]) = params_[2]

RECURSIVE ProductOver(_, _)
\* The product of array[i] for the i in S.
ProductOver(array, S) ==
  IF S = {} THEN 1
  ELSE array[Least(S)] * ProductOver(array, S \ {Least(S)})

\* C38: a default-constructed shape has all dimensions 1 and one element;
\* after a constructor from a shape and after every set(i, dim) elements()
\* is the product of the N dimensions, stride(N-1) = 1, stride(i) =
\* stride(i+1) * dim(i+1), and bstride(i) is 0 where dim(i) = 1 and
\* stride(i) elsewhere.
C38_StridesAndElements ==
  /\ lastOp = <<"new">>
       => /\ \A i \in Indices : constantShape.shape_[i] = 1
          /\ constantShape.elements_ = 1
  /\ (lastOp[1] \in {"ConstantShape", "set"} /\ ~aborted)
       => /\ constantShape.elements_
               = ProductOver(constantShape.shape_, Indices)
          /\ constantShape.stride_[CONST_SHAPE_DIMS - 1] = 1
          /\ \A i \in 0..(CONST_SHAPE_DIMS - 2) :
               constantShape.stride_[i]
                 = constantShape.stride_[i + 1] * constantShape.shape_[i + 1]
          /\ \A i \in Indices :
               constantShape.bstride_[i]
                 = IF constantShape.shape_[i] = 1 THEN 0
                   ELSE constantShape.stride_[i]

\* set(i, dim) has changed an inner dimension of a shape and with it the
\* element count and the stride and broadcast stride in front of it.
C38_InnerDimensionSet ==
  /\ lastOp[1] = "set"
  /\ lastOp[2] = 2
  /\ lastOp[3] = 3
  /\ constantShape.shape_[3] = 2
  /\ constantShape.shape_[1] = 2
  /\ constantShape.stride_[1] = 6
  /\ constantShape.bstride_[1] = 6
  /\ constantShape.bstride_[0] = 0
  /\ constantShape.elements_ = 12

\* The coordinates of the linear index si in the shape.
Coordinates(si) == dims(constantShape, si, [k \in Indices |-> 0])

\* C39: in a contiguous shape, for every linear index si below elements(),
\* index(si) = si, every coordinate dims(si, d) gives is below its
\* dimension, and index(d) = si; the calls return these results.
C39_IndexRoundTrip ==
  /\ (lastOp[1] \in {"ConstantShape", "set", "index", "dims"} /\ ~aborted)
       => \A si \in 0..(constantShape.elements_ - 1) :
            /\ index(constantShape, si) = si
            /\ \A k \in Indices :
                 /\ 0 <= Coordinates(si)[k]
                 /\ Coordinates(si)[k] < constantShape.shape_[k]
            /\ indexDims(constantShape, Coordinates(si)) = si
  /\ lastOp[1] = "index" => lastRet = lastOp[2]
  /\ lastOp[1] = "dims"
       => /\ lastRet = lastOp[2]
          /\ \A k \in Indices :
               0 <= lastOp[3][k] /\ lastOp[3][k] < constantShape.shape_[k]

\* dims() and index() were called with the last linear index of a shape of
\* 2 x 3 x 2 elements.
C39_LastElementOfShape ==
  /\ lastOp[1] = "dims"
  /\ lastOp[2] = 11
  /\ lastOp[3] = [k \in Indices |-> IF k = 0 THEN 0 ELSE
                                      IF k = 2 THEN 2 ELSE 1]
  /\ constantShape.shape_ = [k \in Indices |-> IF k = 0 THEN 1 ELSE
                                                IF k = 2 THEN 3 ELSE 2]
  /\ lastRet = 11
====
